---------------------------- MODULE Spec2Model ----------------------------
(***************************************************************************)
(* The progressive resolver of coinmarketcap-mcp (search_cryptocurrency in *)
(* server.py) over the catalog client of cmc_api.py.                       *)
(*                                                                         *)
(* Text (str) is a sequence of one-character strings, so that upper(),     *)
(* strip(), the regular-expression substitutions and the comparisons of    *)
(* the code are computed, character by character, as the code does.        *)
(* Enumerated tags (match method, confidence tier, ...) are plain strings. *)
(***************************************************************************)
EXTENDS Integers, Sequences, FiniteSets, TLC

(***************************************************************************)
(* Python values.                                                          *)
(***************************************************************************)
\* Python's None for an optional str: a one-element sequence no text equals.
None == <<"<None>">>

\* Truthy with the empty str taken for a value
TruthyNotNone(x) == x # None

\* bool(x) of an optional str: None and "" are falsy.
Truthy(x) == x # None /\ x # <<>>

Lowers == <<"a","b","c","d","e","f","g","h","i","j","k","l","m",
            "n","o","p","q","r","s","t","u","v","w","x","y","z">>
Uppers == <<"A","B","C","D","E","F","G","H","I","J","K","L","M",
            "N","O","P","Q","R","S","T","U","V","W","X","Y","Z">>
Digits == {"0","1","2","3","4","5","6","7","8","9"}
Whitespace == {" ", "\t", "\n"}

IndexOf(seq, c) ==
    IF \E i \in 1..Len(seq) : seq[i] = c
    THEN CHOOSE i \in 1..Len(seq) : seq[i] = c
    ELSE 0

upper_char(c) == LET i == IndexOf(Lowers, c) IN IF i > 0 THEN Uppers[i] ELSE c
lower_char(c) == LET i == IndexOf(Uppers, c) IN IF i > 0 THEN Lowers[i] ELSE c

\* str.upper() and str.lower()
upper(s) == [i \in 1..Len(s) |-> upper_char(s[i])]
lower(s) == [i \in 1..Len(s) |-> lower_char(s[i])]

RECURSIVE lstrip(_, _)
lstrip(s, cs) == IF s # <<>> /\ Head(s) \in cs THEN lstrip(Tail(s), cs) ELSE s

RECURSIVE rstrip(_, _)
rstrip(s, cs) ==
    IF s # <<>> /\ s[Len(s)] \in cs THEN rstrip(SubSeq(s, 1, Len(s) - 1), cs) ELSE s

\* str.strip() with no argument strips whitespace; str.strip(chars) strips chars.
strip(s) == rstrip(lstrip(s, Whitespace), Whitespace)

startswith(s, p) == Len(s) >= Len(p) /\ SubSeq(s, 1, Len(p)) = p
endswith(s, p) == Len(s) >= Len(p) /\ SubSeq(s, Len(s) - Len(p) + 1, Len(s)) = p

\* s[:-n] for n >= 1
DropLast(s, n) == SubSeq(s, 1, Len(s) - n)

\* x in s, for two str
Contains(s, x) == \E i \in 0..(Len(s) - Len(x)) : SubSeq(s, i + 1, i + Len(x)) = x

RECURSIVE Flatten(_)
Flatten(ss) == IF ss = <<>> THEN <<>> ELSE Head(ss) \o Flatten(Tail(ss))

(***************************************************************************)
(* _generate_symbol_variations (server.py 162-207)                         *)
(***************************************************************************)
\* the rebrand / merger table, as (key, targets) pairs in source order
expansions == <<
    << <<"R","N","D","R">>,     << <<"R","E","N","D","E","R">> >> >>,
    << <<"G","R","T">>,         << <<"G","R","A","P","H">> >> >>,
    << <<"F","E","T">>,         << <<"F","E","T","C","H">>, <<"A","S","I">> >> >>,
    << <<"A","G","I","X">>,     << <<"A","S","I">> >> >>,
    << <<"O","C","E","A","N">>, << <<"A","S","I">> >> >>,
    << <<"L","U","N","A">>,     << <<"L","U","N","C">>, <<"L","U","N","A","2">> >> >>,
    << <<"U","S","T">>,         << <<"U","S","T","C">> >> >>,
    << <<"M","A","T","I","C">>, << <<"P","O","L">> >> >> >>

suffixes == << <<"T","O","K","E","N">>, <<"C","O","I","N">>,
               <<"P","R","O","T","O","C","O","L">>, <<"N","E","T","W","O","R","K">>,
               <<"F","I","N","A","N","C","E">>, <<"S","W","A","P">>, <<"D","A","O">> >>

short_suffixes == << <<"T","O","K","E","N">>, <<"C","O","I","N">> >>

\* the symbols of at most this many characters get TOKEN / COIN appended
ShortSymbolLen == 4
\* rules (e) and (f) need at least this many characters
MinExpandLen == 3

\* _generate_symbol_variations stripping a suffix that is the whole symbol
GenerateSymbolVariationsWholeSuffix(symbol) ==
    LET s == strip(upper(symbol))
        ruleA == Flatten([i \in 1..Len(expansions) |->
                    IF expansions[i][1] = s THEN expansions[i][2] ELSE <<>>])
        ruleB == Flatten([i \in 1..Len(suffixes) |->
                    IF endswith(s, suffixes[i]) /\ Len(s) >= Len(suffixes[i])
                    THEN << DropLast(s, Len(suffixes[i])) >> ELSE <<>>])
        ruleC == IF Len(s) <= ShortSymbolLen
                 THEN [i \in 1..Len(short_suffixes) |-> s \o short_suffixes[i]]
                 ELSE <<>>
        ruleD == IF s # <<>> /\ s[Len(s)] \in Digits
                 THEN << rstrip(s, Digits) >> ELSE <<>>
        ruleE == IF Len(s) >= MinExpandLen /\ endswith(s, <<"R">>)
                 THEN << DropLast(s, 1) \o <<"E","R">> >> ELSE <<>>
        ruleF == IF Len(s) >= MinExpandLen /\ endswith(s, <<"N">>)
                 THEN << s \o <<"E","T">> >> ELSE <<>>
    IN  ruleA \o ruleB \o ruleC \o ruleD \o ruleE \o ruleF

_generate_symbol_variations(symbol) ==
    LET s == strip(upper(symbol))
        ruleA == Flatten([i \in 1..Len(expansions) |->
                    IF expansions[i][1] = s THEN expansions[i][2] ELSE <<>>])
        ruleB == Flatten([i \in 1..Len(suffixes) |->
                    IF endswith(s, suffixes[i]) /\ Len(s) > Len(suffixes[i])
                    THEN << DropLast(s, Len(suffixes[i])) >> ELSE <<>>])
        ruleC == IF Len(s) <= ShortSymbolLen
                 THEN [i \in 1..Len(short_suffixes) |-> s \o short_suffixes[i]]
                 ELSE <<>>
        ruleD == IF s # <<>> /\ s[Len(s)] \in Digits
                 THEN << rstrip(s, Digits) >> ELSE <<>>
        ruleE == IF Len(s) >= MinExpandLen /\ endswith(s, <<"R">>)
                 THEN << DropLast(s, 1) \o <<"E","R">> >> ELSE <<>>
        ruleF == IF Len(s) >= MinExpandLen /\ endswith(s, <<"N">>)
                 THEN << s \o <<"E","T">> >> ELSE <<>>
    IN  ruleA \o ruleB \o ruleC \o ruleD \o ruleE \o ruleF

(***************************************************************************)
(* _name_to_slug, _normalize_url, _extract_domain (server.py 383-410)      *)
(***************************************************************************)
LowerSet == {Lowers[i] : i \in 1..Len(Lowers)}
UpperSet == {Uppers[i] : i \in 1..Len(Uppers)}
\* [a-z0-9]
AlnumLower == LowerSet \cup Digits
\* \w of the re module, on the characters of the model
WordChars == LowerSet \cup UpperSet \cup Digits \cup {"_"}

\* re.sub('[^...]', '', s): keep only the characters of cs
Keep(s, cs) == SelectSeq(s, LAMBDA c : c \in cs)

\* re.sub('[...]+', r, s): every maximal run of characters of cs becomes r
RECURSIVE CollapseRuns(_, _, _)
CollapseRuns(s, cs, r) ==
    IF s = <<>> THEN <<>>
    ELSE IF Head(s) \in cs
         THEN <<r>> \o CollapseRuns(lstrip(Tail(s), cs), cs, r)
         ELSE <<Head(s)>> \o CollapseRuns(Tail(s), cs, r)

\* _name_to_slug without the collapse of hyphen runs
NameToSlugNoHyphenCollapse(name) ==
    LET s0 == strip(lower(name))
        s1 == Keep(s0, AlnumLower \cup Whitespace \cup {"-"})
        s2 == CollapseRuns(s1, Whitespace \cup {"_"}, "-")
    IN  rstrip(lstrip(s2, {"-"}), {"-"})

_name_to_slug(name) ==
    LET s0 == strip(lower(name))
        s1 == Keep(s0, AlnumLower \cup Whitespace \cup {"-"})
        s2 == CollapseRuns(s1, Whitespace \cup {"_"}, "-")
        s3 == CollapseRuns(s2, {"-"}, "-")
    IN  rstrip(lstrip(s3, {"-"}), {"-"})

url_prefixes == << <<"h","t","t","p","s",":","/","/">>,
                   <<"h","t","t","p",":","/","/">>,
                   <<"w","w","w",".">> >>

RECURSIVE StripPrefixes(_, _)
StripPrefixes(url, prefixes) ==
    IF prefixes = <<>> THEN url
    ELSE StripPrefixes(
            IF startswith(url, Head(prefixes))
            THEN SubSeq(url, Len(Head(prefixes)) + 1, Len(url)) ELSE url,
            Tail(prefixes))

\* _normalize_url taking the prefixes off in the other order
NormalizeUrlWwwFirst(url) ==
    StripPrefixes(rstrip(strip(lower(url)), {"/"}),
                  <<url_prefixes[3], url_prefixes[2], url_prefixes[1]>>)

_normalize_url(url) ==
    StripPrefixes(rstrip(strip(lower(url)), {"/"}), url_prefixes)

\* s.split(sep)[0]: the part of s before the first sep
RECURSIVE SplitFirst(_, _)
SplitFirst(s, sep) ==
    IF s = <<>> \/ Head(s) = sep THEN <<>>
    ELSE <<Head(s)>> \o SplitFirst(Tail(s), sep)

\* _extract_domain without the split at the port
ExtractDomainKeepsPort(url) == SplitFirst(_normalize_url(url), "/")

_extract_domain(url) == SplitFirst(SplitFirst(_normalize_url(url), "/"), ":")

(***************************************************************************)
(* The remote catalog: entries, metadata and what the wire can answer.     *)
(***************************************************************************)
\* the largest number of entries one answer lists
MaxListed == 11
\* the number of website assignments the metadata answers are drawn from
NumProfiles == 3

DigitChars == <<"0","1","2","3","4","5","6","7","8","9">>

\* str(n) for n >= 0
RECURSIVE str(_)
str(n) == IF n < 10 THEN <<DigitChars[n + 1]>>
          ELSE str(n \div 10) \o <<DigitChars[(n % 10) + 1]>>

\* the key "rank" is missing from an entry
NoRank == -1

KnownEntries == <<
    [id |-> 1, name |-> <<"B","i","t","c","o","i","n">>, symbol |-> <<"B","T","C">>, slug |-> <<"b","i","t","c","o","i","n">>, rank |-> 1],
    [id |-> 2, name |-> <<"E","t","h","e","r","e","u","m">>, symbol |-> <<"E","T","H">>, slug |-> <<"e","t","h","e","r","e","u","m">>, rank |-> 2],
    [id |-> 3, name |-> <<"E","t","h","e","r","e","u","m"," ","C","l","a","s","s","i","c">>, symbol |-> <<"E","T","C">>,
     slug |-> <<"e","t","h","e","r","e","u","m","-","c","l","a","s","s","i","c">>, rank |-> 3],
    [id |-> 4, name |-> <<"R","e","n","d","e","r">>, symbol |-> <<"R","E","N","D","E","R">>, slug |-> <<"r","e","n","d","e","r">>, rank |-> NoRank] >>

\* CatalogEntry {id, name, symbol, slug, rank}
Entry(i) ==
    IF i <= Len(KnownEntries) THEN KnownEntries[i]
    ELSE [id |-> i, name |-> <<"T","o","k","e","n"," ">> \o str(i), symbol |-> <<"T","K">> \o str(i),
          slug |-> <<"t","o","k","e","n","-">> \o str(i), rank |-> IF i % 2 = 0 THEN i ELSE NoRank]

EntryRange(a, n) == [k \in 1..n |-> Entry(a + k - 1)]

\* the data of a map answer: a list of entries
EntryLists == {EntryRange(1, 0), EntryRange(1, 1), EntryRange(2, 2), EntryRange(1, MaxListed)}

\* the website lists a metadata answer declares
Sites == << << <<"h","t","t","p","s",":","/","/","w","w","w",".","e","t","h","e","r","e","u","m",".","o","r","g","/">> >>,
            << <<"h","t","t","p","s",":","/","/","b","i","t","c","o","i","n",".","o","r","g">>, <<"h","t","t","p",":","/","/","E","t","h","e","r","e","u","m",".","o","r","g","/","e","n","/">> >>,
            << <<"h","t","t","p","s",":","/","/","b","i","t","c","o","i","n",".","o","r","g">> >>,
            << >> >>

\* the metadata of entry i under website assignment p
Info(i, p) == [id |-> i, name |-> Entry(i).name, symbol |-> Entry(i).symbol,
               slug |-> Entry(i).slug, website |-> Sites[((i + p) % Len(Sites)) + 1]]

\* one item of the data mapping of an info answer: the id as text -> one object,
\* or a list of objects
InfoItem(key, shape, values) == [key |-> str(key), shape |-> shape, values |-> values]

\* the data of an info-by-slug answer
SlugInfoData == {
    <<>>,
    << InfoItem(4, "dict", <<Info(4, 1)>>) >>,
    << InfoItem(2, "list", <<Info(2, 1), Info(3, 1)>>) >>,
    << InfoItem(1, "dict", <<Info(1, 1)>>), InfoItem(2, "list", <<Info(2, 1), Info(3, 1)>>) >> }

\* the data of an info-by-id answer for the requested ids under assignment p: the
\* ids the assignment does not know are missing, as are all of them for p = 0
IdInfoData(ids, p) ==
    LET known == SelectSeq(ids, LAMBDA i : p # 0 /\ (i + p) % 5 # 0)
    IN  [k \in 1..Len(known) |->
            InfoItem(known[k],
                     IF p = NumProfiles /\ known[k] % 3 = 0 THEN "list" ELSE "dict",
                     <<Info(known[k], p)>>)]

\* httpx's response.is_success
is_success(status_code) == status_code >= 200 /\ status_code <= 299

\* what the wire does with a request: the transport raises, or an envelope arrives
TransportFailure == [kind |-> "exception", status_code |-> 0, error_code |-> 0,
                     error_message |-> "", data |-> <<>>]
Envelope(status_code, error_code, error_message, data) ==
    [kind |-> "response", status_code |-> status_code, error_code |-> error_code,
     error_message |-> error_message, data |-> data]

\* the failures: the transport raises; HTTP 400 with the envelope's error code;
\* HTTP 200 with an error code in the envelope; HTTP 500 with error code 0
WireFailures == {
    TransportFailure,
    Envelope(400, 400, "Not found", <<>>),
    Envelope(200, 1001, "API key invalid", <<>>),
    Envelope(500, 0, "Unknown error", <<>>) }

\* the answers to a request: a failure, or HTTP 200 with error code 0 and data
WireAnswers(datas) == WireFailures \cup {Envelope(200, 0, "", d) : d \in datas}

(***************************************************************************)
(* The catalog client (cmc_api.py)                                         *)
(***************************************************************************)
\* an exception: its class and the fields str(e) is made of
Exc(type, status_code, message, error_code) ==
    [type |-> type, status_code |-> status_code, message |-> message,
     error_code |-> error_code]

\* the outcome of a call: an exception raised, or the data returned
Raised(e) == [raised |-> TRUE, exc |-> e, data |-> <<>>]
Returned(d) == [raised |-> FALSE, exc |-> Exc("", 0, "", 0), data |-> d]

\* default page size of get_cryptocurrency_map
DefaultLimit == 100

\* the request get_cryptocurrency_map sends: falsy filters are left out
get_cryptocurrency_map(symbol, limit) ==
    [op |-> "map",
     symbol |-> IF Truthy(symbol) THEN symbol ELSE None,
     slug |-> None, id |-> None, limit |-> limit]

\* the parameters get_cryptocurrency_info would send: falsy filters are left out
info_params(id, slug) ==
    [op |-> "info", symbol |-> None,
     slug |-> IF Truthy(slug) THEN slug ELSE None,
     id |-> IF Truthy(id) THEN id ELSE None, limit |-> 0]

\* get_cryptocurrency_info raises ValueError, and sends nothing, with no parameter
info_needs_parameter(id, slug) ==
    info_params(id, slug).id = None /\ info_params(id, slug).slug = None

MissingParameter ==
    Exc("ValueError", 0, "At least one of id, symbol, slug, or address is required", 0)

\* _request raising only when both the error code and the status are bad
RequestNeedsBoth(wire) ==
    IF wire.kind = "exception"
    THEN Raised(Exc("TransportError", 0, "transport", 0))
    ELSE IF wire.error_code # 0 /\ ~is_success(wire.status_code)
         THEN Raised(Exc("CoinMarketCapAPIError", wire.status_code,
                         wire.error_message, wire.error_code))
         ELSE Returned(wire.data)

\* _request: what the caller gets for what the wire did
_request(wire) ==
    IF wire.kind = "exception"
    THEN Raised(Exc("TransportError", 0, "transport", 0))
    ELSE IF wire.error_code # 0 \/ ~is_success(wire.status_code)
         THEN Raised(Exc("CoinMarketCapAPIError", wire.status_code,
                         wire.error_message, wire.error_code))
         ELSE Returned(wire.data)

\* "if x: params[k] = x": a falsy argument is left out of the parameters
Param(x) == IF Truthy(x) THEN x ELSE None

\* the operation raises before it sends anything
Local(e) == [sent |-> <<>>, response |-> <<>>, outcome |-> Raised(e)]
\* the operation sends its parameters, and _request decides on the response
Remote(path, params, wire) ==
    [sent |-> << [path |-> path, params |-> params] >>, response |-> <<wire>>,
     outcome |-> _request(wire)]

get_cryptocurrency_info(id, symbol, slug, address, wire) ==
    LET params == [id |-> Param(id), symbol |-> Param(symbol), slug |-> Param(slug),
                   address |-> Param(address)]
    IN  IF \A k \in DOMAIN params : params[k] = None
        THEN Local(MissingParameter)
        ELSE Remote("/v2/cryptocurrency/info", params, wire)

\* get_cryptocurrency_quotes_latest testing "not params", which holds convert
QuotesLatestTestsParams(id, symbol, slug, convert, wire) ==
    LET params == [convert |-> convert, id |-> Param(id), symbol |-> Param(symbol),
                   slug |-> Param(slug)]
    IN  IF \A k \in DOMAIN params : params[k] = None
        THEN Local(Exc("ValueError", 0, "At least one of id, symbol, or slug is required", 0))
        ELSE Remote("/v2/cryptocurrency/quotes/latest", params, wire)

get_cryptocurrency_quotes_latest(id, symbol, slug, convert, wire) ==
    LET params == [convert |-> convert, id |-> Param(id), symbol |-> Param(symbol),
                   slug |-> Param(slug)]
    IN  IF ~(Truthy(id) \/ Truthy(symbol) \/ Truthy(slug))
        THEN Local(Exc("ValueError", 0, "At least one of id, symbol, or slug is required", 0))
        ELSE Remote("/v2/cryptocurrency/quotes/latest", params, wire)

get_exchange_info(id, slug, wire) ==
    LET params == [id |-> Param(id), slug |-> Param(slug)]
    IN  IF \A k \in DOMAIN params : params[k] = None
        THEN Local(Exc("ValueError", 0, "At least one of id or slug is required", 0))
        ELSE Remote("/v1/exchange/info", params, wire)

get_exchange_map(slug, wire) ==
    Remote("/v1/exchange/map", [slug |-> Param(slug), limit |-> DefaultLimit], wire)

get_global_metrics_quotes_latest(convert, wire) ==
    Remote("/v1/global-metrics/quotes/latest", [convert |-> convert], wire)

get_key_info(wire) == Remote("/v1/key/info", <<>>, wire)

(***************************************************************************)
(* Candidates                                                              *)
(***************************************************************************)
NoSimilarity == -1

\* a candidate: the entry's fields and the resolver's; a key the dict lacks is
\* None, NoRank, NoSimilarity or "absent"
Candidate(item, rank, method, confidence, matched, original, similarity, match_type, warning) ==
    [id |-> item.id, name |-> item.name, symbol |-> item.symbol, slug |-> item.slug,
     rank |-> rank,
     _match_method |-> method, _confidence |-> confidence,
     _matched_query |-> matched, _original_query |-> original,
     _similarity |-> similarity, _match_type |-> match_type, _warning |-> warning,
     _homepage_match |-> "absent", _website_urls |-> <<>>]

FuzzyWarning == "Fuzzy match - verify with homepage or manual check"

\* list.sort(key=...), a stable sort: keys[i] is the integer key of seq[i].
\* InsertSorted puts index x after every index whose key is not larger.
\* InsertSorted putting an index before the indices of equal key
RECURSIVE InsertSortedUnstable(_, _, _)
InsertSortedUnstable(sorted, x, keys) ==
    IF sorted = <<>> THEN <<x>>
    ELSE IF keys[x] <= keys[Head(sorted)] THEN <<x>> \o sorted
         ELSE <<Head(sorted)>> \o InsertSortedUnstable(Tail(sorted), x, keys)

RECURSIVE InsertSorted(_, _, _)
InsertSorted(sorted, x, keys) ==
    IF sorted = <<>> THEN <<x>>
    ELSE IF keys[x] < keys[Head(sorted)] THEN <<x>> \o sorted
         ELSE <<Head(sorted)>> \o InsertSorted(Tail(sorted), x, keys)

RECURSIVE SortedIndices(_, _)
SortedIndices(n, keys) ==
    IF n = 0 THEN <<>> ELSE InsertSorted(SortedIndices(n - 1, keys), n, keys)

StableSort(seq, keys) ==
    LET order == SortedIndices(Len(seq), keys)
    IN  [k \in 1..Len(seq) |-> seq[order[k]]]

\* s[:n]
Take(s, n) == SubSeq(s, 1, IF Len(s) < n THEN Len(s) ELSE n)

(***************************************************************************)
(* _fuzzy_search_by_name (server.py 210-273)                               *)
(***************************************************************************)
\* re.findall('\w{3,}', s) as a set: the maximal runs of word characters of
\* MinWordLen or more characters
MinWordLen == 3

RECURSIVE WordRuns(_, _)
WordRuns(s, run) ==
    IF s = <<>> THEN (IF run = <<>> THEN {} ELSE {run})
    ELSE IF Head(s) \in WordChars THEN WordRuns(Tail(s), Append(run, Head(s)))
         ELSE (IF run = <<>> THEN {} ELSE {run}) \cup WordRuns(Tail(s), <<>>)

Words(s) == {w \in WordRuns(s, <<>>) : Len(w) >= MinWordLen}

Max(a, b) == IF a >= b THEN a ELSE b

\* the entry name must have this many alphanumeric characters for reverse_contains
MinReverseLen == 5
\* the page size of the fuzzy strategy's catalog fetch
FuzzyPageLimit == 5000
\* at most this many fuzzy matches are returned
FuzzyTop == 5
\* the rank of an entry with no rank, for the ordering of the matches
RankSentinel == 99999

\* the similarity of one entry, as the fraction num / (1000 * den), and its type
Score(name, item) ==
    LET name_lower == strip(lower(name))
        name_clean == Keep(name_lower, AlnumLower)
        item_name == lower(item.name)
        item_slug == lower(item.slug)
        item_name_clean == Keep(item_name, AlnumLower)
        item_slug_clean == Keep(item_slug, AlnumLower)
        query_words == Words(name_lower)
        name_words == Words(item_name)
        overlap == query_words \cap name_words
        none == [num |-> 0, den |-> 1, type |-> "None"]
    IN  IF name_clean = item_name_clean \/ name_clean = item_slug_clean
        THEN [num |-> 1000, den |-> 1, type |-> "exact"]
        ELSE IF Contains(item_name_clean, name_clean) \/ Contains(item_slug_clean, name_clean)
        THEN [num |-> 900, den |-> 1, type |-> "contains"]
        ELSE IF Contains(name_clean, item_name_clean) \/ Contains(name_clean, item_slug_clean)
        THEN IF Len(item_name_clean) >= MinReverseLen
             THEN [num |-> 850, den |-> 1, type |-> "reverse_contains"]
             ELSE none
        ELSE IF query_words # {} /\ name_words # {} /\ overlap # {}
             THEN LET den == Max(Cardinality(query_words), Cardinality(name_words))
                  IN  [num |-> 600 * den + 300 * Cardinality(overlap), den |-> den,
                       type |-> "word_overlap"]
             ELSE none

\* similarity >= 0.6
Kept(score) == score.num >= 600 * score.den

\* round(similarity, 2) in hundredths; the float sum 0.6 + x * 0.3 lies at or just
\* below the exact value, so a tie goes down
Round2(score) ==
    LET unit == 10 * score.den
        q == score.num \div unit
        r == score.num % unit
    IN  IF 2 * r > unit THEN q + 1 ELSE q

\* the matches of a catalog page, in page order
FuzzyMatches(name, page) ==
    LET scored == [k \in 1..Len(page) |->
                      [item |-> page[k], score |-> Score(name, page[k])]]
        kept == SelectSeq(scored, LAMBDA m : Kept(m.score))
    IN  [k \in 1..Len(kept) |->
            [item |-> kept[k].item, _similarity |-> Round2(kept[k].score),
             _match_type |-> kept[k].score.type]]

\* RankKey with no sentinel for an entry that has no rank
RankKeyNoSentinel(item) == item.rank

RankKey(item) == IF item.rank = NoRank THEN RankSentinel ELSE item.rank

\* matches.sort(key=(-similarity, rank)): the stable sort by rank, then by similarity
\* descending, is the sort by the pair
SortMatches(matches) ==
    LET by_rank == StableSort(matches, [k \in 1..Len(matches) |-> RankKey(matches[k].item)])
    IN  StableSort(by_rank, [k \in 1..Len(by_rank) |-> 0 - by_rank[k]._similarity])

\* what _fuzzy_search_by_name returns for the outcome of its catalog fetch: any
\* exception gives []
_fuzzy_search_by_name(outcome, name) ==
    IF outcome.raised THEN <<>>
    ELSE Take(SortMatches(FuzzyMatches(name, outcome.data)), FuzzyTop)

(***************************************************************************)
(* _verify_candidates_by_homepage (server.py 327-380)                      *)
(***************************************************************************)
\* at most this many candidates are looked up
VerifyTop == 10

\* ",".join(texts)
RECURSIVE Join(_)
Join(texts) ==
    IF texts = <<>> THEN <<>>
    ELSE IF Len(texts) = 1 THEN Head(texts)
         ELSE Head(texts) \o <<",">> \o Join(Tail(texts))

\* ids_to_check over all the candidates, not the first 10
IdsToCheckAll(candidates) ==
    [k \in 1..Len(candidates) |-> str(candidates[k].id)]

ids_to_check(candidates) ==
    [k \in 1..Len(Take(candidates, VerifyTop)) |-> str(candidates[k].id)]

HasKey(info_data, cid) == \E k \in 1..Len(info_data) : info_data[k].key = cid
Lookup(info_data, cid) ==
    info_data[CHOOSE k \in 1..Len(info_data) : info_data[k].key = cid]

\* Verified leaving the warning of an exact match in place
VerifiedKeepsWarning(candidate, info, homepage) ==
    LET website_urls == info.website
        exact_match == \E k \in 1..Len(website_urls) :
                          _normalize_url(website_urls[k]) = _normalize_url(homepage)
        domain_match == \E k \in 1..Len(website_urls) :
                          _extract_domain(website_urls[k]) = _extract_domain(homepage)
    IN  IF exact_match
        THEN [candidate EXCEPT !._confidence = "verified", !._homepage_match = "exact",
                               !._website_urls = website_urls]
        ELSE IF domain_match
        THEN [candidate EXCEPT !._confidence = IF @ = "low" THEN "medium" ELSE @,
                               !._homepage_match = "domain",
                               !._website_urls = website_urls]
        ELSE [candidate EXCEPT !._homepage_match = "False",
                               !._website_urls = website_urls]

\* Verified with a domain match that leaves a low confidence low
VerifiedDomainNoPromotion(candidate, info, homepage) ==
    LET website_urls == info.website
        exact_match == \E k \in 1..Len(website_urls) :
                          _normalize_url(website_urls[k]) = _normalize_url(homepage)
        domain_match == \E k \in 1..Len(website_urls) :
                          _extract_domain(website_urls[k]) = _extract_domain(homepage)
    IN  IF exact_match
        THEN [candidate EXCEPT !._confidence = "verified", !._homepage_match = "exact",
                               !._website_urls = website_urls, !._warning = "absent"]
        ELSE IF domain_match
        THEN [candidate EXCEPT !._homepage_match = "domain",
                               !._website_urls = website_urls]
        ELSE [candidate EXCEPT !._homepage_match = "False",
                               !._website_urls = website_urls]

\* one candidate compared with its metadata
\* Verified with a domain match setting medium whatever the confidence was
VerifiedDomainSetsMedium(candidate, info, homepage) ==
    LET website_urls == info.website
        exact_match == \E k \in 1..Len(website_urls) :
                          _normalize_url(website_urls[k]) = _normalize_url(homepage)
        domain_match == \E k \in 1..Len(website_urls) :
                          _extract_domain(website_urls[k]) = _extract_domain(homepage)
    IN  IF exact_match
        THEN [candidate EXCEPT !._confidence = "verified", !._homepage_match = "exact",
                               !._website_urls = website_urls, !._warning = "absent"]
        ELSE IF domain_match
        THEN [candidate EXCEPT !._confidence = "medium",
                               !._homepage_match = "domain",
                               !._website_urls = website_urls]
        ELSE [candidate EXCEPT !._homepage_match = "False",
                               !._website_urls = website_urls]

Verified(candidate, info, homepage) ==
    LET website_urls == info.website
        exact_match == \E k \in 1..Len(website_urls) :
                          _normalize_url(website_urls[k]) = _normalize_url(homepage)
        domain_match == \E k \in 1..Len(website_urls) :
                          _extract_domain(website_urls[k]) = _extract_domain(homepage)
    IN  IF exact_match
        THEN [candidate EXCEPT !._confidence = "verified", !._homepage_match = "exact",
                               !._website_urls = website_urls, !._warning = "absent"]
        ELSE IF domain_match
        THEN [candidate EXCEPT !._confidence = IF @ = "low" THEN "medium" ELSE @,
                               !._homepage_match = "domain",
                               !._website_urls = website_urls]
        ELSE [candidate EXCEPT !._homepage_match = "False",
                               !._website_urls = website_urls]

\* the loop over the candidates from position k on; the candidates are changed in
\* place, and a value that is a list and not an object raises (list has no .get),
\* which ends the loop with the changes made so far
RECURSIVE VerifyFrom(_, _, _, _)
VerifyFrom(candidates, k, info_data, homepage) ==
    IF k > Len(candidates) THEN candidates
    ELSE LET cid == str(candidates[k].id)
         IN  IF ~HasKey(info_data, cid)
             THEN VerifyFrom(candidates, k + 1, info_data, homepage)
             ELSE IF Lookup(info_data, cid).shape = "list" THEN candidates
             ELSE VerifyFrom(
                     [candidates EXCEPT
                         ![k] = Verified(@, Lookup(info_data, cid).values[1], homepage)],
                     k + 1, info_data, homepage)

\* what _verify_candidates_by_homepage returns for the outcome of its metadata fetch
_verify_candidates_by_homepage(outcome, candidates, homepage) ==
    IF outcome.raised THEN candidates
    ELSE VerifyFrom(candidates, 1, outcome.data, homepage)

(***************************************************************************)
(* search_cryptocurrency (server.py 16-159)                                *)
(***************************************************************************)
confidence_order(confidence) ==
    CASE confidence = "verified" -> 0
      [] confidence = "high" -> 1
      [] confidence = "medium" -> 2
      [] confidence = "low" -> 3
      [] OTHER -> 3

\* candidates.sort(key=confidence_order)
SortByConfidence(candidates) ==
    StableSort(candidates,
               [k \in 1..Len(candidates) |-> confidence_order(candidates[k]._confidence)])

\* all_matches holds at most this many candidates
MaxMatches == 10

LowConfidenceWarning == "Best match is low confidence - provide homepage URL for verification"
MultipleMatchesWarning == "Multiple matches - provide homepage URL to disambiguate"

\* Warnings with the multiple-matches warning whether or not a homepage was given
WarningsIgnoreHomepage(candidates, homepage) ==
    (IF candidates # <<>> /\ candidates[1]._confidence = "low"
     THEN <<LowConfidenceWarning>> ELSE <<>>)
    \o (IF Len(candidates) > 1
        THEN <<MultipleMatchesWarning>> ELSE <<>>)

Warnings(candidates, homepage) ==
    (IF candidates # <<>> /\ candidates[1]._confidence = "low"
     THEN <<LowConfidenceWarning>> ELSE <<>>)
    \o (IF Len(candidates) > 1 /\ ~Truthy(homepage)
        THEN <<MultipleMatchesWarning>> ELSE <<>>)

\* SearchResult with found true only from the second candidate on
SearchResultFoundOffByOne(name, symbol, homepage, candidates, search_log) ==
    [query |-> [name |-> name, symbol |-> symbol, homepage |-> homepage],
     found |-> Len(candidates) > 1,
     match_count |-> Len(candidates),
     best_match |-> IF candidates # <<>> THEN <<candidates[1]>> ELSE <<>>,
     all_matches |-> Take(candidates, MaxMatches),
     search_log |-> search_log,
     warnings |-> IF Warnings(candidates, homepage) # <<>>
                  THEN Warnings(candidates, homepage) ELSE None]

\* SearchResult with all the candidates as all_matches
SearchResultUntruncated(name, symbol, homepage, candidates, search_log) ==
    [query |-> [name |-> name, symbol |-> symbol, homepage |-> homepage],
     found |-> Len(candidates) > 0,
     match_count |-> Len(candidates),
     best_match |-> IF candidates # <<>> THEN <<candidates[1]>> ELSE <<>>,
     all_matches |-> candidates,
     search_log |-> search_log,
     warnings |-> IF Warnings(candidates, homepage) # <<>>
                  THEN Warnings(candidates, homepage) ELSE None]

\* SearchResult with found taken from the log and not from the candidates
SearchResultFoundFromLog(name, symbol, homepage, candidates, search_log) ==
    [query |-> [name |-> name, symbol |-> symbol, homepage |-> homepage],
     found |-> Len(search_log) > 0,
     match_count |-> Len(candidates),
     best_match |-> IF candidates # <<>> THEN <<candidates[1]>> ELSE <<>>,
     all_matches |-> Take(candidates, MaxMatches),
     search_log |-> search_log,
     warnings |-> IF Warnings(candidates, homepage) # <<>>
                  THEN Warnings(candidates, homepage) ELSE None]

\* the dict search_cryptocurrency returns; best_match is <<>> for None
SearchResult(name, symbol, homepage, candidates, search_log) ==
    [query |-> [name |-> name, symbol |-> symbol, homepage |-> homepage],
     found |-> Len(candidates) > 0,
     match_count |-> Len(candidates),
     best_match |-> IF candidates # <<>> THEN <<candidates[1]>> ELSE <<>>,
     all_matches |-> Take(candidates, MaxMatches),
     search_log |-> search_log,
     warnings |-> IF Warnings(candidates, homepage) # <<>>
                  THEN Warnings(candidates, homepage) ELSE None]

\* one line of search_log: the strategy, the query in it, what happened, the
\* count in it (0 if none) and the text of the exception in it (if any)
LogLine(strategy, query, what, count, e) ==
    [strategy |-> strategy, query |-> query, what |-> what, count |-> count,
     status_code |-> e.status_code, message |-> e.message]

NoExc == Exc("", 0, "", 0)

MissingQuery == Exc("ValueError", 0, "At least one of name or symbol is required", 0)
MissingApiKey ==
    Exc("ValueError", 0, "COINMARKETCAP_API_KEY or CMC_API_KEY environment variable is required", 0)

\* the arguments the tool is called with
Names == {None, <<>>, <<"E","t","h","e","r","e","u","m">>, <<"!","!","!">>, <<"R","e","n","d","e","r"," ","T","o","k","e","n">>}
Symbols == {None, <<>>, <<" ">>, <<"b","t","c"," ">>, <<"R","N","D","R">>, <<"1","2">>}
Homepages == {None, <<>>, <<"H","T","T","P","S",":","/","/","w","w","w",".","E","t","h","e","r","e","u","m",".","o","r","g","/">>}

VARIABLES
    pc,           \* where the invocation of search_cryptocurrency stands
    name,         \* its arguments
    symbol,
    homepage,
    candidates,   \* its local list of candidates
    search_log,   \* its local list of log lines
    variations,   \* the variants of strategy 2
    vi,           \* the position of the loop over them
    requests,     \* the requests this invocation has sent, each with its outcome
    discovered,   \* the candidates as they stood right before the sort
    result,       \* <<the dict returned>>, or <<>>
    raised,       \* <<the exception raised to the caller>>, or <<>>
    _client,      \* the module's global: "None" or "client"
    api_key,      \* whether the environment holds an API key
    fn,           \* the helper or client operation called on its own, "" before a call
    arg,          \* what it was called with
    ret,          \* what it returned or raised
    tasks,        \* the tool invocations in flight on the event loop
    created       \* how many times CoinMarketCapClient(api_key) was constructed

\* the variables a step of search_cryptocurrency leaves alone
call_vars == <<fn, arg, ret>>
task_vars == <<tasks, created>>

vars == <<pc, name, symbol, homepage, candidates, search_log, variations, vi,
          requests, discovered, result, raised, _client, api_key, call_vars, task_vars>>

\* the number of tool invocations the event loop runs at once
NumTasks == 3
Tasks == 1..NumTasks

\* no helper or client operation has been called on its own
NoCall == fn = "" /\ arg = <<>> /\ ret = <<>>

\* no tool invocation is in flight; a task holds the number of the client
\* instance _get_client gave it, 0 before that
Idle == [pc |-> "idle", tool |-> "", client |-> 0]
NoTasks == tasks = [t \in Tasks |-> Idle] /\ created = 0

\* search_cryptocurrency has not been called
NoSearch ==
    /\ pc = "idle"
    /\ name = None /\ symbol = None /\ homepage = None
    /\ candidates = <<>> /\ search_log = <<>>
    /\ variations = <<>> /\ vi = 0
    /\ requests = <<>> /\ discovered = <<>> /\ result = <<>> /\ raised = <<>>

Init ==
    /\ NoSearch
    /\ _client = "None"
    /\ api_key \in BOOLEAN
    /\ NoCall
    /\ NoTasks

\* a request sent, and whether the call raised or which data it returned
Sent(request, outcome) ==
    [request |-> request, raised |-> outcome.raised, data |-> outcome.data]

\* lines 38-43 with _get_client (697-711): the checks before the first strategy
Invoke(n, s, h) ==
    /\ pc = "idle"
    /\ UNCHANGED <<call_vars, task_vars>>
    /\ name' = n /\ symbol' = s /\ homepage' = h
    /\ candidates' = <<>> /\ search_log' = <<>>
    /\ variations' = <<>> /\ vi' = 0
    /\ requests' = <<>> /\ discovered' = <<>> /\ result' = <<>>
    /\ UNCHANGED api_key
    /\ IF ~(Truthy(n) \/ Truthy(s))
       THEN /\ raised' = <<MissingQuery>>
            /\ pc' = "raised"
            /\ UNCHANGED _client
       ELSE IF _client = "None" /\ ~api_key
       THEN /\ raised' = <<MissingApiKey>>
            /\ pc' = "raised"
            /\ UNCHANGED _client
       ELSE /\ raised' = <<>>
            /\ pc' = "exact_symbol"
            /\ _client' = "client"

\* ExactSymbolCandidates tagging the candidates with the symbol as it was given
ExactSymbolCandidatesRawQuery(data, symbol_upper) ==
    [k \in 1..Len(data) |->
        Candidate(data[k], data[k].rank, "exact_symbol", "high", symbol, None,
                  NoSimilarity, "absent", "absent")]

\* lines 45-61: strategy 1
ExactSymbolCandidates(data, symbol_upper) ==
    [k \in 1..Len(data) |->
        Candidate(data[k], data[k].rank, "exact_symbol", "high", symbol_upper, None,
                  NoSimilarity, "absent", "absent")]

\* line 46: if symbol
ExactGate == Truthy(symbol)

\* ExactSymbol without its try / except: a failed lookup reaches the caller
ExactSymbolUncaught ==
    /\ pc = "exact_symbol"
    /\ UNCHANGED <<call_vars, task_vars>>
    /\ UNCHANGED <<name, symbol, homepage, variations, vi, discovered, result,
                   _client, api_key>>
    /\ IF ExactGate
       THEN LET symbol_upper == strip(upper(symbol))
                request == get_cryptocurrency_map(symbol_upper, DefaultLimit)
            IN  \E wire \in WireAnswers(EntryLists) :
                  LET outcome == _request(wire)
                  IN  /\ requests' = Append(requests, Sent(request, outcome))
                      /\ IF outcome.raised
                         THEN /\ raised' = <<outcome.exc>>
                              /\ pc' = "raised"
                              /\ UNCHANGED <<candidates, search_log>>
                         ELSE /\ pc' = "symbol_variation"
                              /\ UNCHANGED raised
                              /\ IF outcome.data # <<>>
                                 THEN /\ candidates' = candidates \o
                                            ExactSymbolCandidates(outcome.data, symbol_upper)
                                      /\ search_log' = Append(search_log,
                                            LogLine("exact_symbol", symbol_upper, "found",
                                                    Len(outcome.data), NoExc))
                                 ELSE UNCHANGED <<candidates, search_log>>
       ELSE /\ pc' = "symbol_variation"
            /\ UNCHANGED <<candidates, search_log, requests, raised>>

\* ExactSymbol issuing a failed lookup a second time
ExactSymbolRetries ==
    /\ pc = "exact_symbol"
    /\ UNCHANGED <<call_vars, task_vars>>
    /\ pc' = "symbol_variation"
    /\ UNCHANGED <<name, symbol, homepage, variations, vi, discovered, result, raised,
                   _client, api_key>>
    /\ IF ExactGate
       THEN LET symbol_upper == strip(upper(symbol))
                request == get_cryptocurrency_map(symbol_upper, DefaultLimit)
            IN  \E wire \in WireAnswers(EntryLists) :
                  LET outcome == _request(wire)
                  IN  /\ requests' = IF outcome.raised
                                      THEN Append(Append(requests, Sent(request, outcome)),
                                                  Sent(request, outcome))
                                      ELSE Append(requests, Sent(request, outcome))
                      /\ IF outcome.raised
                         THEN /\ search_log' = Append(search_log,
                                    LogLine("exact_symbol", symbol_upper, "failed", 0, outcome.exc))
                              /\ UNCHANGED candidates
                         ELSE IF outcome.data # <<>>
                         THEN /\ candidates' = candidates \o
                                    ExactSymbolCandidates(outcome.data, symbol_upper)
                              /\ search_log' = Append(search_log,
                                    LogLine("exact_symbol", symbol_upper, "found",
                                            Len(outcome.data), NoExc))
                         ELSE UNCHANGED <<candidates, search_log>>
       ELSE UNCHANGED <<candidates, search_log, requests>>

ExactSymbol ==
    /\ pc = "exact_symbol"
    /\ UNCHANGED <<call_vars, task_vars>>
    /\ pc' = "symbol_variation"
    /\ UNCHANGED <<name, symbol, homepage, variations, vi, discovered, result, raised,
                   _client, api_key>>
    /\ IF ExactGate
       THEN LET symbol_upper == strip(upper(symbol))
                request == get_cryptocurrency_map(symbol_upper, DefaultLimit)
            IN  \E wire \in WireAnswers(EntryLists) :
                  LET outcome == _request(wire)
                  IN  /\ requests' = Append(requests, Sent(request, outcome))
                      /\ IF outcome.raised
                         THEN /\ search_log' = Append(search_log,
                                    LogLine("exact_symbol", symbol_upper, "failed", 0, outcome.exc))
                              /\ UNCHANGED candidates
                         ELSE IF outcome.data # <<>>
                         THEN /\ candidates' = candidates \o
                                    ExactSymbolCandidates(outcome.data, symbol_upper)
                              /\ search_log' = Append(search_log,
                                    LogLine("exact_symbol", symbol_upper, "found",
                                            Len(outcome.data), NoExc))
                         ELSE UNCHANGED <<candidates, search_log>>
       ELSE UNCHANGED <<candidates, search_log, requests>>

\* line 64: if symbol and not candidates
VariationGate == Truthy(symbol) /\ candidates = <<>>

\* lines 64-65: strategy 2 is entered only with a symbol and no candidate
EnterSymbolVariation ==
    /\ pc = "symbol_variation"
    /\ UNCHANGED <<call_vars, task_vars>>
    /\ UNCHANGED <<name, symbol, homepage, candidates, search_log, requests, discovered,
                   result, raised, _client, api_key>>
    /\ IF VariationGate
       THEN /\ variations' = _generate_symbol_variations(symbol)
            /\ vi' = 1
            /\ pc' = "variants"
       ELSE /\ UNCHANGED <<variations, vi>>
            /\ pc' = "slug"

VariationCandidates(data, variant, original) ==
    [k \in 1..Len(data) |->
        Candidate(data[k], data[k].rank, "symbol_variation", "medium", variant, original,
                  NoSimilarity, "absent", "absent")]

\* TryVariant without the break after a variant that returned entries
TryVariantNoBreak ==
    /\ pc = "variants"
    /\ UNCHANGED <<call_vars, task_vars>>
    /\ UNCHANGED <<name, symbol, homepage, variations, discovered, result, raised,
                   _client, api_key>>
    /\ IF vi > Len(variations)
       THEN /\ pc' = "slug"
            /\ UNCHANGED <<vi, candidates, search_log, requests>>
       ELSE LET variant == variations[vi]
            IN  IF variant = upper(symbol)
                THEN /\ vi' = vi + 1
                     /\ UNCHANGED <<pc, candidates, search_log, requests>>
                ELSE \E wire \in WireAnswers(EntryLists) :
                       LET outcome == _request(wire)
                       IN  /\ requests' = Append(requests,
                                   Sent(get_cryptocurrency_map(variant, DefaultLimit), outcome))
                           /\ vi' = vi + 1
                           /\ UNCHANGED pc
                           /\ IF outcome.raised
                              THEN /\ search_log' = Append(search_log,
                                         LogLine("symbol_variation", variant, "no match", 0, NoExc))
                                   /\ UNCHANGED candidates
                              ELSE IF outcome.data # <<>>
                              THEN /\ candidates' = candidates \o
                                         VariationCandidates(outcome.data, variant, upper(symbol))
                                   /\ search_log' = Append(search_log,
                                         LogLine("symbol_variation", variant, "found",
                                                 Len(outcome.data), NoExc))
                              ELSE UNCHANGED <<candidates, search_log>>

\* lines 66-84: one round of the loop over the variants
TryVariant ==
    /\ pc = "variants"
    /\ UNCHANGED <<call_vars, task_vars>>
    /\ UNCHANGED <<name, symbol, homepage, variations, discovered, result, raised,
                   _client, api_key>>
    /\ IF vi > Len(variations)
       THEN /\ pc' = "slug"
            /\ UNCHANGED <<vi, candidates, search_log, requests>>
       ELSE LET variant == variations[vi]
            IN  IF variant = upper(symbol)
                THEN /\ vi' = vi + 1
                     /\ UNCHANGED <<pc, candidates, search_log, requests>>
                ELSE \E wire \in WireAnswers(EntryLists) :
                       LET outcome == _request(wire)
                       IN  /\ requests' = Append(requests,
                                   Sent(get_cryptocurrency_map(variant, DefaultLimit), outcome))
                           /\ IF outcome.raised
                              THEN /\ search_log' = Append(search_log,
                                         LogLine("symbol_variation", variant, "no match", 0, NoExc))
                                   /\ vi' = vi + 1
                                   /\ UNCHANGED <<pc, candidates>>
                              ELSE IF outcome.data # <<>>
                              THEN /\ candidates' = candidates \o
                                         VariationCandidates(outcome.data, variant, upper(symbol))
                                   /\ search_log' = Append(search_log,
                                         LogLine("symbol_variation", variant, "found",
                                                 Len(outcome.data), NoExc))
                                   /\ pc' = "slug"
                                   /\ UNCHANGED vi
                              ELSE /\ vi' = vi + 1
                                   /\ UNCHANGED <<pc, candidates, search_log>>

\* the candidates of the data of an info-by-slug answer: a value that is a list
\* gives one candidate per element, any other value one candidate
SlugCandidates(data, slug) ==
    LET flat == Flatten([k \in 1..Len(data) |->
                    IF data[k].shape = "list" THEN data[k].values
                    ELSE <<data[k].values[1]>>])
    IN  [k \in 1..Len(flat) |->
            Candidate(flat[k], NoRank, "slug", "medium", slug, None,
                      NoSimilarity, "absent", "absent")]

\* SlugGate without the test for candidates
SlugGateNoCheck == Truthy(name)

\* line 87: if name and not candidates
SlugGate == Truthy(name) /\ candidates = <<>>

\* lines 86-117: strategy 3
SlugFromName ==
    /\ pc = "slug"
    /\ UNCHANGED <<call_vars, task_vars>>
    /\ pc' = "fuzzy_name"
    /\ UNCHANGED <<name, symbol, homepage, variations, vi, discovered, result, raised,
                   _client, api_key>>
    /\ IF SlugGate
       THEN LET slug == _name_to_slug(name)
            IN  IF info_needs_parameter(None, slug)
                THEN /\ search_log' = Append(search_log,
                            LogLine("slug", slug, "no match", 0, MissingParameter))
                     /\ UNCHANGED <<candidates, requests>>
                ELSE \E wire \in WireAnswers(SlugInfoData) :
                       LET outcome == _request(wire)
                       IN  /\ requests' = Append(requests,
                                   Sent(info_params(None, slug), outcome))
                           /\ IF outcome.raised
                              THEN /\ search_log' = Append(search_log,
                                         LogLine("slug", slug, "no match", 0, outcome.exc))
                                   /\ UNCHANGED candidates
                              ELSE IF outcome.data # <<>>
                              THEN /\ candidates' = candidates \o
                                         SlugCandidates(outcome.data, slug)
                                   /\ search_log' = Append(search_log,
                                         LogLine("slug", slug, "found",
                                                 Len(SlugCandidates(outcome.data, slug)), NoExc))
                              ELSE UNCHANGED <<candidates, search_log>>
       ELSE UNCHANGED <<candidates, search_log, requests>>

\* the catalog pages the fuzzy strategy's fetch can return
Pages == {EntryRange(1, 0), EntryRange(1, MaxListed)}

FuzzyCandidates(matches) ==
    [k \in 1..Len(matches) |->
        Candidate(matches[k].item, matches[k].item.rank, "fuzzy_name", "low", None, None,
                  matches[k]._similarity, matches[k]._match_type, FuzzyWarning)]

\* line 120: if name and not candidates
FuzzyGate == Truthy(name) /\ candidates = <<>>

\* lines 119-133: strategy 4
FuzzyName ==
    /\ pc = "fuzzy_name"
    /\ UNCHANGED <<call_vars, task_vars>>
    /\ pc' = "homepage"
    /\ UNCHANGED <<name, symbol, homepage, variations, vi, discovered, result, raised,
                   _client, api_key>>
    /\ IF FuzzyGate
       THEN \E wire \in WireAnswers(Pages) :
              LET outcome == _request(wire)
                  fuzzy_matches == _fuzzy_search_by_name(outcome, name)
              IN  /\ requests' = Append(requests,
                          Sent(get_cryptocurrency_map(None, FuzzyPageLimit), outcome))
                  /\ IF fuzzy_matches # <<>>
                     THEN /\ candidates' = candidates \o FuzzyCandidates(fuzzy_matches)
                          /\ search_log' = Append(search_log,
                                LogLine("fuzzy_name", name, "found", Len(fuzzy_matches), NoExc))
                     ELSE /\ search_log' = Append(search_log,
                                LogLine("fuzzy_name", name, "no match", 0, NoExc))
                          /\ UNCHANGED candidates
       ELSE UNCHANGED <<candidates, search_log, requests>>

\* lines 140-159: the sort, the warnings and the returned dict
Finish(cands, log) ==
    /\ discovered' = cands
    /\ candidates' = SortByConfidence(cands)
    /\ search_log' = log
    /\ result' = <<SearchResult(name, symbol, homepage, SortByConfidence(cands), log)>>
    /\ pc' = "returned"

\* HomepageGate without the test for a homepage
HomepageGateNoHomepage == candidates # <<>>

\* line 136: if homepage and candidates
HomepageGate == Truthy(homepage) /\ candidates # <<>>

HomepageLogLine(checked) ==
    LogLine("homepage_verification", None, "checked", Len(checked), NoExc)

\* lines 135-159: strategy 5, and the rest of the function; with no id to check
\* (337-338) the candidates come back as they are and nothing is sent
VerifyHomepage ==
    /\ pc = "homepage"
    /\ UNCHANGED <<call_vars, task_vars>>
    /\ UNCHANGED <<name, symbol, homepage, variations, vi, raised, _client, api_key>>
    /\ IF HomepageGate
       THEN IF ids_to_check(candidates) = <<>>
            THEN /\ UNCHANGED requests
                 /\ Finish(candidates, Append(search_log, HomepageLogLine(candidates)))
            ELSE \E wire \in WireAnswers({IdInfoData(
                                [k \in 1..Len(Take(candidates, VerifyTop)) |-> candidates[k].id],
                                p) : p \in 0..NumProfiles}) :
                   LET outcome == _request(wire)
                       checked == _verify_candidates_by_homepage(outcome, candidates, homepage)
                   IN  /\ requests' = Append(requests,
                               Sent(info_params(Join(ids_to_check(candidates)), None), outcome))
                       /\ Finish(checked, Append(search_log, HomepageLogLine(checked)))
       ELSE /\ UNCHANGED requests
            /\ Finish(candidates, search_log)

\* the caller has the result, or the exception: the invocation is over
Return ==
    /\ pc \in {"returned", "raised"}
    /\ UNCHANGED <<call_vars, task_vars>>
    /\ pc' = "idle"
    /\ name' = None /\ symbol' = None /\ homepage' = None
    /\ candidates' = <<>> /\ search_log' = <<>>
    /\ variations' = <<>> /\ vi' = 0
    /\ requests' = <<>> /\ discovered' = <<>> /\ result' = <<>> /\ raised' = <<>>
    /\ UNCHANGED <<_client, api_key>>

Next == \/ \E n \in Names, s \in Symbols, h \in Homepages : Invoke(n, s, h)
        \/ ExactSymbol
        \/ EnterSymbolVariation
        \/ TryVariant
        \/ SlugFromName
        \/ FuzzyName
        \/ VerifyHomepage
        \/ Return

Spec == Init /\ [][Next]_vars
\* the steps of one invocation once it is past its checks
Pipeline == \/ ExactSymbol
            \/ EnterSymbolVariation
            \/ TryVariant
            \/ SlugFromName
            \/ FuzzyName
            \/ VerifyHomepage

(***************************************************************************)
(* The helpers of server.py 162-207 and 383-410, each called on its own     *)
(***************************************************************************)
\* the variables of search_cryptocurrency and of the module
search_vars == <<pc, name, symbol, homepage, candidates, search_log, variations, vi,
                 requests, discovered, result, raised, _client, api_key>>

\* the texts of at most n characters of cs
TextsUpTo(cs, n) == UNION {[1..k -> cs] : k \in 0..n}

\* symbols: a stem, then an ending
SymbolStems == {<<>>, <<"R">>, <<"N">>, <<"U","N">>, <<"S","O","L">>, <<"B","T","C">>, <<"F","E","T">>, <<"G","R","T">>, <<"U","S","T">>, <<"D","A","O">>, <<"C","O","I","N">>,
                <<"R","N","D","R">>, <<"L","U","N","A">>, <<"A","G","I","X">>, <<"T","R","O","N">>, <<"U","S","D","T">>, <<"O","C","E","A","N">>, <<"M","A","T","I","C">>, <<"r","n","d","r">>, <<" ","L","u","n","a">>}
SymbolEndings == {<<>>, <<"T","O","K","E","N">>, <<"C","O","I","N">>, <<"P","R","O","T","O","C","O","L">>, <<"N","E","T","W","O","R","K">>, <<"F","I","N","A","N","C","E">>, <<"S","W","A","P">>, <<"D","A","O">>,
                  <<"2">>, <<"1","2">>, <<"R">>, <<"N">>, <<"t","o","k","e","n"," ">>}
SymbolTexts == {stem \o ending : stem \in SymbolStems, ending \in SymbolEndings}

\* names: every text of at most MaxNameLen characters of NameChars, and the
\* names of the unit tests
MaxNameLen == 4
NameChars == {"A", "b", "7", " ", "-", "_", "("}
NameTexts == TextsUpTo(NameChars, MaxNameLen)
                \cup {<<"R","e","n","d","e","r"," ","T","o","k","e","n">>, <<"T","h","e"," ","G","r","a","p","h">>, <<"U","S","D"," ","C","o","i","n"," ","(","U","S","D","C",")">>, <<" ","B","i","t","c","o","i","n"," ">>}

\* URLs: [scheme][www.]host[:port][/path][/], in lower, upper or mixed case
Schemes == {<<>>, <<"h","t","t","p",":","/","/">>, <<"h","t","t","p","s",":","/","/">>}
WwwPrefixes == {<<>>, <<"w","w","w",".">>}
Hosts == {<<"e","t","h","e","r","e","u","m",".","o","r","g">>, <<"d","o","c","s",".","e","t","h","e","r","e","u","m",".","o","r","g">>, <<"b","i","n","a","n","c","e",".","c","o","m">>, <<"l","o","c","a","l","h","o","s","t">>}
Ports == {<<>>, <<":","4","4","3">>, <<":","8","0","8","0">>}
Paths == {<<>>, <<"/","t","r","a","d","e">>, <<"/","e","n","/","g","u","i","d","e">>}
Slashes == {<<>>, <<"/">>}
Cases == {"lower", "upper", "mixed"}

InCase(s, case) ==
    CASE case = "lower" -> lower(s)
      [] case = "upper" -> upper(s)
      [] OTHER -> [i \in 1..Len(s) |-> IF i % 2 = 1 THEN upper_char(s[i]) ELSE s[i]]

Url(scheme, www, host, port, path, slash, case) ==
    InCase(scheme \o www \o host \o port \o path \o slash, case)

UrlTexts == {Url(scheme, www, host, port, path, slash, case) :
                scheme \in Schemes, www \in WwwPrefixes, host \in Hosts, port \in Ports,
                path \in Paths, slash \in Slashes, case \in Cases}

\* one call of each helper: its name, its argument and what it returned
GenerateSymbolVariations(s) ==
    /\ fn = ""
    /\ fn' = "_generate_symbol_variations" /\ arg' = s
    /\ ret' = _generate_symbol_variations(s)
    /\ UNCHANGED <<search_vars, task_vars>>

NameToSlug(n) ==
    /\ fn = ""
    /\ fn' = "_name_to_slug" /\ arg' = n
    /\ ret' = _name_to_slug(n)
    /\ UNCHANGED <<search_vars, task_vars>>

NormalizeUrl(u) ==
    /\ fn = ""
    /\ fn' = "_normalize_url" /\ arg' = u
    /\ ret' = _normalize_url(u)
    /\ UNCHANGED <<search_vars, task_vars>>

ExtractDomain(u) ==
    /\ fn = ""
    /\ fn' = "_extract_domain" /\ arg' = u
    /\ ret' = _extract_domain(u)
    /\ UNCHANGED <<search_vars, task_vars>>

\* the caller is done with what the call returned
Returns ==
    /\ fn # ""
    /\ fn' = "" /\ arg' = <<>> /\ ret' = <<>>
    /\ UNCHANGED <<search_vars, task_vars>>

HelpersInit ==
    /\ NoSearch /\ _client = "None" /\ api_key = TRUE
    /\ NoCall
    /\ NoTasks

HelpersNext ==
    \/ \E s \in SymbolTexts : GenerateSymbolVariations(s)
    \/ \E n \in NameTexts : NameToSlug(n)
    \/ \E u \in UrlTexts : NormalizeUrl(u)
    \/ \E u \in UrlTexts : ExtractDomain(u)
    \/ Returns

HelpersSpec == HelpersInit /\ [][HelpersNext]_vars

(***************************************************************************)
(* The operations of CoinMarketCapClient (cmc_api.py 45-263), each called   *)
(* on its own                                                              *)
(***************************************************************************)
\* the arguments the operations are called with
IdArgs == {None, <<>>, <<"1",",","2">>}
SymbolArgs == {None, <<>>, <<"B","T","C">>}
SlugArgs == {None, <<>>, <<"b","i","t","c","o","i","n">>}
AddressArgs == {None, <<"0","x","a","b","c">>}
ConvertArgs == {<<"U","S","D">>}

\* the responses: HTTP statuses around the success range, with the error codes
\* and messages of the envelope's status, and the transport raising
StatusCodes == {199, 200, 204, 299, 300, 404, 500}
ErrorCodes == {0, 400, 1001}
Responses ==
    {TransportFailure} \cup
    {Envelope(status_code, error_code,
              IF error_code = 0 THEN "Unknown error" ELSE "Invalid value", data) :
        status_code \in StatusCodes, error_code \in ErrorCodes,
        data \in {EntryRange(1, 0), EntryRange(1, 1)}}

GetCryptocurrencyMap(s, wire) ==
    /\ fn = ""
    /\ fn' = "get_cryptocurrency_map" /\ arg' = [symbol |-> s]
    /\ ret' = Remote("/v1/cryptocurrency/map", get_cryptocurrency_map(s, DefaultLimit), wire)
    /\ UNCHANGED <<search_vars, task_vars>>

GetCryptocurrencyInfo(i, s, g, a, wire) ==
    /\ fn = ""
    /\ fn' = "get_cryptocurrency_info"
    /\ arg' = [id |-> i, symbol |-> s, slug |-> g, address |-> a]
    /\ ret' = get_cryptocurrency_info(i, s, g, a, wire)
    /\ UNCHANGED <<search_vars, task_vars>>

GetCryptocurrencyQuotesLatest(i, s, g, c, wire) ==
    /\ fn = ""
    /\ fn' = "get_cryptocurrency_quotes_latest"
    /\ arg' = [id |-> i, symbol |-> s, slug |-> g, convert |-> c]
    /\ ret' = get_cryptocurrency_quotes_latest(i, s, g, c, wire)
    /\ UNCHANGED <<search_vars, task_vars>>

GetExchangeMap(g, wire) ==
    /\ fn = ""
    /\ fn' = "get_exchange_map" /\ arg' = [slug |-> g]
    /\ ret' = get_exchange_map(g, wire)
    /\ UNCHANGED <<search_vars, task_vars>>

GetExchangeInfo(i, g, wire) ==
    /\ fn = ""
    /\ fn' = "get_exchange_info" /\ arg' = [id |-> i, slug |-> g]
    /\ ret' = get_exchange_info(i, g, wire)
    /\ UNCHANGED <<search_vars, task_vars>>

GetGlobalMetricsQuotesLatest(c, wire) ==
    /\ fn = ""
    /\ fn' = "get_global_metrics_quotes_latest" /\ arg' = [convert |-> c]
    /\ ret' = get_global_metrics_quotes_latest(c, wire)
    /\ UNCHANGED <<search_vars, task_vars>>

GetKeyInfo(wire) ==
    /\ fn = ""
    /\ fn' = "get_key_info" /\ arg' = <<>>
    /\ ret' = get_key_info(wire)
    /\ UNCHANGED <<search_vars, task_vars>>

ClientInit ==
    /\ NoSearch /\ _client = "client" /\ api_key = TRUE
    /\ NoCall
    /\ NoTasks

ClientNext ==
    \/ \E s \in SymbolArgs, wire \in Responses : GetCryptocurrencyMap(s, wire)
    \/ \E i \in IdArgs, s \in SymbolArgs, g \in SlugArgs, a \in AddressArgs,
          wire \in Responses : GetCryptocurrencyInfo(i, s, g, a, wire)
    \/ \E i \in IdArgs, s \in SymbolArgs, g \in SlugArgs, c \in ConvertArgs,
          wire \in Responses : GetCryptocurrencyQuotesLatest(i, s, g, c, wire)
    \/ \E g \in SlugArgs, wire \in Responses : GetExchangeMap(g, wire)
    \/ \E i \in IdArgs, g \in SlugArgs, wire \in Responses : GetExchangeInfo(i, g, wire)
    \/ \E c \in ConvertArgs, wire \in Responses : GetGlobalMetricsQuotesLatest(c, wire)
    \/ \E wire \in Responses : GetKeyInfo(wire)
    \/ Returns

ClientSpec == ClientInit /\ [][ClientNext]_vars

(***************************************************************************)
(* The tools on the event loop (server.py 15-711): every tool is a          *)
(* coroutine, and what it runs between two awaits is one step              *)
(***************************************************************************)
\* the locals of the one search_cryptocurrency followed step by step
invocation_vars == <<pc, name, symbol, homepage, candidates, search_log, variations, vi,
                     requests, discovered, result, raised>>

\* the tools that call _get_client before anything else
Tools == {"cryptocurrency_map", "cryptocurrency_info", "cryptocurrency_quotes_latest",
          "exchange_map", "exchange_info", "global_metrics_quotes_latest", "key_info",
          "search_cryptocurrency"}

\* _get_client constructing a client whether or not one exists
GetClientNoCheck(t, tool) ==
    /\ tasks[t] = Idle
    /\ UNCHANGED <<invocation_vars, api_key, call_vars>>
    /\ IF ~api_key
       THEN /\ tasks' = [tasks EXCEPT ![t] = [pc |-> "raised", tool |-> tool, client |-> 0]]
            /\ UNCHANGED <<_client, created>>
       ELSE /\ created' = created + 1
            /\ _client' = "client"
            /\ tasks' = [tasks EXCEPT
                            ![t] = [pc |-> "awaiting", tool |-> tool, client |-> created + 1]]

\* a tool is invoked and runs up to its first await: _get_client (697-711), which
\* has no await in it, returns the client of the module, the one constructed last,
\* or constructs it, or raises for want of an API key
GetClient(t, tool) ==
    /\ tasks[t] = Idle
    /\ UNCHANGED <<invocation_vars, api_key, call_vars>>
    /\ IF _client # "None"
       THEN /\ tasks' = [tasks EXCEPT
                            ![t] = [pc |-> "awaiting", tool |-> tool, client |-> created]]
            /\ UNCHANGED <<_client, created>>
       ELSE IF ~api_key
       THEN /\ tasks' = [tasks EXCEPT ![t] = [pc |-> "raised", tool |-> tool, client |-> 0]]
            /\ UNCHANGED <<_client, created>>
       ELSE /\ created' = created + 1
            /\ _client' = "client"
            /\ tasks' = [tasks EXCEPT
                            ![t] = [pc |-> "awaiting", tool |-> tool, client |-> created + 1]]

\* search_cryptocurrency with neither name nor symbol raises before _get_client
RejectSearch(t) ==
    /\ tasks[t] = Idle
    /\ tasks' = [tasks EXCEPT
                    ![t] = [pc |-> "raised", tool |-> "search_cryptocurrency", client |-> 0]]
    /\ UNCHANGED <<invocation_vars, _client, api_key, call_vars, created>>

\* the awaited request of the tool completes, and the tool runs to its end
Resume(t) ==
    /\ tasks[t].pc = "awaiting"
    /\ tasks' = [tasks EXCEPT ![t].pc = "done"]
    /\ UNCHANGED <<invocation_vars, _client, api_key, call_vars, created>>

\* the caller has the result, or the exception
Complete(t) ==
    /\ tasks[t].pc \in {"done", "raised"}
    /\ tasks' = [tasks EXCEPT ![t] = Idle]
    /\ UNCHANGED <<invocation_vars, _client, api_key, call_vars, created>>

TasksInit ==
    /\ NoSearch /\ _client = "None" /\ api_key \in BOOLEAN
    /\ NoCall
    /\ NoTasks

TasksNext ==
    \/ \E t \in Tasks, tool \in Tools : GetClient(t, tool)
    \/ \E t \in Tasks : RejectSearch(t)
    \/ \E t \in Tasks : Resume(t)
    \/ \E t \in Tasks : Complete(t)

TasksSpec == TasksInit /\ [][TasksNext]_vars

(***************************************************************************)
(* _fuzzy_search_by_name (server.py 210-273) called on its own              *)
(***************************************************************************)
\* the entries of the catalog the pages are made of, in the order the catalog
\* lists them; a slug the entry lacks is "", as item.get("slug", "") has it
FuzzyPool == <<
    [id |-> 11, name |-> <<"T","o","k","e","n"," ","C","l","a","s","s","i","c">>, symbol |-> <<"T","K","C">>, slug |-> <<>>, rank |-> NoRank],
    [id |-> 12, name |-> <<"R","e","n","d","e","r"," ","N","e","t","w","o","r","k">>, symbol |-> <<"R","N","D","N">>, slug |-> <<"r","e","n","d","e","r","-","n","e","t","w","o","r","k">>, rank |-> 80],
    [id |-> 13, name |-> <<"E","t","h","e","r","e","u","m"," ","C","l","a","s","s","i","c">>, symbol |-> <<"E","T","C">>, slug |-> <<"e","t","h","e","r","e","u","m","-","c","l","a","s","s","i","c">>, rank |-> 30],
    [id |-> 14, name |-> <<"E","t","h","e","r","e","u","m">>, symbol |-> <<"E","T","H">>, slug |-> <<"e","t","h","e","r","e","u","m">>, rank |-> 2],
    [id |-> 15, name |-> <<"G","a","s">>, symbol |-> <<"G","A","S">>, slug |-> <<"g","a","s">>, rank |-> 60],
    [id |-> 16, name |-> <<"R","e","n","d","e","r">>, symbol |-> <<"R","E","N","D","E","R">>, slug |-> <<"r","e","n","d","e","r">>, rank |-> NoRank],
    [id |-> 17, name |-> <<"0","x"," ","P","r","o","t","o","c","o","l">>, symbol |-> <<"Z","R","X">>, slug |-> <<"0","x">>, rank |-> 50],
    [id |-> 18, name |-> <<"B","i","t","c","o","i","n">>, symbol |-> <<"B","T","C">>, slug |-> <<"b","i","t","c","o","i","n">>, rank |-> 1] >>

\* the items of the set of numbers S, ascending
RECURSIVE Ascending(_)
Ascending(S) ==
    IF S = {} THEN <<>>
    ELSE LET m == CHOOSE x \in S : \A y \in S : x <= y
         IN  <<m>> \o Ascending(S \ {m})

\* a page lists at most this many entries
MaxPage == 6

\* the pages: the entries of the pool at the positions of S
FuzzyPage(S) == [k \in 1..Cardinality(S) |-> FuzzyPool[Ascending(S)[k]]]
FuzzyPages == {FuzzyPage(S) : S \in {T \in SUBSET (1..Len(FuzzyPool)) : Cardinality(T) <= MaxPage}}

\* the names searched for
FuzzyNames == {<<"E","t","h","e","r","e","u","m">>, <<"b","i","t","c","o","i","n">>, <<"C","l","a","s","s","i","c">>, <<"R","e","n","d","e","r"," ","T","o","k","e","n">>, <<"G","a","s"," ","T","o","k","e","n">>, <<"0","x","1","2","3","4">>,
               <<"T","h","e"," ","E","t","h","e","r","e","u","m"," ","C","l","a","s","s","i","c"," ","F","o","r","k">>, <<"!","!","!">>, <<"T">>}

FuzzySearchByName(n, wire) ==
    /\ fn = ""
    /\ fn' = "_fuzzy_search_by_name"
    /\ arg' = [name |-> n, outcome |-> _request(wire)]
    /\ ret' = _fuzzy_search_by_name(_request(wire), n)
    /\ UNCHANGED <<search_vars, task_vars>>

FuzzyInit ==
    /\ NoSearch /\ _client = "client" /\ api_key = TRUE
    /\ NoCall
    /\ NoTasks

FuzzyNext ==
    \/ \E n \in FuzzyNames, wire \in WireAnswers(FuzzyPages) : FuzzySearchByName(n, wire)
    \/ Returns

FuzzySpec == FuzzyInit /\ [][FuzzyNext]_vars

(***************************************************************************)
(* The properties                                                          *)
(***************************************************************************)
\* the tiers, best first
Tiers == <<"verified", "high", "medium", "low">>
TierIndex(t) == CHOOSE i \in 1..Len(Tiers) : Tiers[i] = t

\* the places of an invocation, in the order of the code
Stages == <<"exact_symbol", "symbol_variation", "variants", "slug", "fuzzy_name",
            "homepage", "returned">>
StageIndex(p) == IF \E i \in 1..Len(Stages) : Stages[i] = p
                 THEN CHOOSE i \in 1..Len(Stages) : Stages[i] = p ELSE 0

\* a lookup that returned no entries or failed
Void(sent) == sent.raised \/ sent.data = <<>>

\* the strategy (1-5) that sent the k-th request of reqs
StrategyOf(reqs, k) ==
    LET r == reqs[k].request
    IN  IF r.op = "info" THEN (IF r.id # None THEN 5 ELSE 3)
        ELSE IF r.limit = FuzzyPageLimit THEN 4
        ELSE IF k = 1 THEN 1 ELSE 2

\* C1: in every returned SearchResult, found is true exactly when match_count > 0,
\* best_match is null exactly when match_count = 0, and a best_match that is not
\* null is the first element of all_matches.
C1_FoundIffMatches ==
    result # <<>> =>
        LET r == result[1]
        IN  /\ r.found <=> (r.match_count > 0)
            /\ (r.best_match = <<>>) <=> (r.match_count = 0)
            /\ r.best_match # <<>> =>
                  /\ r.all_matches # <<>>
                  /\ r.best_match[1] = r.all_matches[1]

C1_Witness ==
    /\ result # <<>>
    /\ result[1].match_count = 1
    /\ result[1].found
    /\ result[1].best_match # <<>>

\* C2: all_matches is never longer than 10 and is the leading segment of the sorted
\* candidate list, in the same order, with min(10, number of candidates) elements.
C2_TopTenPrefix ==
    result # <<>> =>
        LET r == result[1]
            n == IF Len(candidates) < 10 THEN Len(candidates) ELSE 10
        IN  /\ Len(r.all_matches) <= 10
            /\ Len(r.all_matches) = n
            /\ \A k \in 1..n : r.all_matches[k] = candidates[k]

C2_Witness ==
    /\ result # <<>>
    /\ Len(candidates) > 10
    /\ Len(result[1].all_matches) = 10

\* C3: the candidates of a SearchResult are ordered verified, high, medium, low: a
\* candidate of a lower tier never precedes one of a higher tier, and the candidates
\* of one tier keep the order in which they were discovered.
C3_StableTierOrder ==
    result # <<>> =>
        /\ \A i, j \in 1..Len(candidates) :
              i < j => TierIndex(candidates[i]._confidence)
                          <= TierIndex(candidates[j]._confidence)
        /\ \A t \in 1..Len(Tiers) :
              SelectSeq(candidates, LAMBDA c : c._confidence = Tiers[t])
                = SelectSeq(discovered, LAMBDA c : c._confidence = Tiers[t])
        /\ \A i, j \in 1..Len(result[1].all_matches) :
              i < j => TierIndex(result[1].all_matches[i]._confidence)
                          <= TierIndex(result[1].all_matches[j]._confidence)

C3_Witness ==
    /\ result # <<>>
    /\ candidates # discovered
    /\ \E i, j \in 1..Len(candidates) :
          i < j /\ candidates[i]._confidence = candidates[j]._confidence
    /\ \E i, j \in 1..Len(discovered) :
          i < j /\ TierIndex(discovered[i]._confidence) > TierIndex(discovered[j]._confidence)

\* C4, as claimed: whenever at least one of name and symbol is supplied, the
\* invocation raises nothing.
C4_NeverRaises ==
    (Truthy(name) \/ Truthy(symbol)) => raised = <<>>

\* C4, amended: with at least one of name and symbol supplied, the only exception
\* that reaches the caller is the missing-credential error of _get_client, raised
\* with no client created, no API key in the environment and no request sent; past
\* that check no step of the invocation raises, whatever the catalog call in it does
\* (every step leads to the next strategy or to the return), and what is handed back
\* is a SearchResult.
C4_RaisesOnlyWithoutCredential ==
    /\ [](((Truthy(name) \/ Truthy(symbol)) /\ raised # <<>>) =>
            /\ raised = <<MissingApiKey>>
            /\ pc = "raised"
            /\ _client = "None" /\ ~api_key
            /\ requests = <<>>)
    /\ [](pc = "returned" => result # <<>> /\ raised = <<>>)
    /\ [][pc \notin {"idle", "raised", "returned"} =>
            /\ raised' = <<>>
            /\ pc' # "raised"
            /\ StageIndex(pc') >= StageIndex(pc)]_vars

C4_Witness ==
    /\ result # <<>>
    /\ raised = <<>>
    /\ Truthy(homepage)
    /\ Len(requests) >= 3
    /\ \E k \in 1..Len(requests) : requests[k].raised
    /\ requests[Len(requests)].raised
    /\ StrategyOf(requests, Len(requests)) = 5

\* C5: with name and symbol both absent the invocation fails with the
\* invalid-argument error, whatever the homepage, before any catalog request.
C5_InvalidArgumentFirst ==
    (pc # "idle" /\ name \in {None, <<>>} /\ symbol \in {None, <<>>}) =>
        /\ pc = "raised"
        /\ raised # <<>>
        /\ raised[1].type = "ValueError"
        /\ raised[1].message = "At least one of name or symbol is required"
        /\ requests = <<>>
        /\ result = <<>>

C5_Witness ==
    /\ pc = "raised"
    /\ name = None /\ symbol = None
    /\ Truthy(homepage)
    /\ raised # <<>>

\* C6: when a symbol is given and the exact-symbol lookup returns entries, every
\* returned entry is a candidate with method exact_symbol, confidence high and the
\* uppercased, trimmed symbol as matched query; with no homepage the best_match is
\* the first returned entry, with confidence high and method exact_symbol.
C6_ExactSymbolTagged ==
    (/\ pc \notin {"idle", "raised", "exact_symbol"}
     /\ Truthy(symbol)
     /\ requests # <<>>
     /\ ~Void(requests[1])) =>
        LET data == requests[1].data
            found == IF pc = "returned" THEN discovered ELSE candidates
        IN  /\ Len(found) = Len(data)
            /\ \A k \in 1..Len(data) :
                  /\ found[k].id = data[k].id
                  /\ found[k].name = data[k].name
                  /\ found[k].symbol = data[k].symbol
                  /\ found[k].slug = data[k].slug
                  /\ found[k]._match_method = "exact_symbol"
                  /\ found[k]._matched_query = strip(upper(symbol))
                  /\ (pc # "returned" \/ ~Truthy(homepage)) => found[k]._confidence = "high"
            /\ (pc = "returned" /\ ~Truthy(homepage)) =>
                  /\ result[1].best_match # <<>>
                  /\ result[1].best_match[1].id = data[1].id
                  /\ result[1].best_match[1].symbol = data[1].symbol
                  /\ result[1].best_match[1]._confidence = "high"
                  /\ result[1].best_match[1]._match_method = "exact_symbol"

C6_Witness ==
    /\ pc = "returned"
    /\ Truthy(symbol)
    /\ symbol # strip(upper(symbol))
    /\ ~Truthy(homepage)
    /\ requests # <<>>
    /\ ~requests[1].raised
    /\ Len(requests[1].data) >= 2
    /\ result[1].best_match # <<>>

\* C7: if every catalog lookup of a search returned no entries or failed, the search
\* returns found = false, match_count = 0, best_match = null and no all_matches,
\* for any name, symbol and homepage.
C7_EmptyCatalogNotFound ==
    (/\ result # <<>>
     /\ \A k \in 1..Len(requests) : Void(requests[k])) =>
        /\ result[1].found = FALSE
        /\ result[1].match_count = 0
        /\ result[1].best_match = <<>>
        /\ result[1].all_matches = <<>>

C7_Witness ==
    /\ result # <<>>
    /\ Truthy(name) /\ Truthy(symbol) /\ Truthy(homepage)
    /\ Len(requests) >= 4
    /\ \A k \in 1..Len(requests) : Void(requests[k])
    /\ \E k \in 1..Len(requests) : requests[k].raised
    /\ \E k \in 1..Len(requests) : ~requests[k].raised
    /\ ~result[1].found

\* the requests are sent in the order of the strategies, and strategies 1, 3, 4 and
\* 5 send at most one
C8_InOrder ==
    \A i, j \in 1..Len(requests) :
        i < j => /\ StrategyOf(requests, i) <= StrategyOf(requests, j)
                 /\ StrategyOf(requests, i) = StrategyOf(requests, j)
                       => StrategyOf(requests, i) = 2

\* all the candidates carry one match method
C8_OneMethod ==
    /\ \A i, j \in 1..Len(candidates) :
          candidates[i]._match_method = candidates[j]._match_method
    /\ result # <<>> =>
          \A i, j \in 1..Len(result[1].all_matches) :
              result[1].all_matches[i]._match_method = result[1].all_matches[j]._match_method

\* a lookup of strategy 2, 3 or 4 is sent only while there is no candidate
C8_SentWithoutCandidates ==
    (/\ Len(requests') = Len(requests) + 1
     /\ StrategyOf(requests', Len(requests')) \in {2, 3, 4}) => candidates = <<>>

\* C8: the strategies run in the order exact symbol, symbol variation, slug-from-name,
\* fuzzy name; each of the last three sends its lookups only if no candidate exists
\* at that point; so every candidate of one search carries the same match method.
C8_StrategiesExclusive ==
    /\ [](C8_InOrder /\ C8_OneMethod)
    /\ [][C8_SentWithoutCandidates]_vars

C8_Witness ==
    /\ result # <<>>
    /\ Len(requests) >= 4
    /\ StrategyOf(requests, 1) = 1
    /\ StrategyOf(requests, Len(requests)) = 4
    /\ \E k \in 1..Len(requests) : StrategyOf(requests, k) = 3
    /\ Len(candidates) >= 2
    /\ candidates[1]._match_method = "fuzzy_name"

\* the variants that are looked up: those that differ from the uppercased symbol
VariantsToTry ==
    SelectSeq(_generate_symbol_variations(symbol), LAMBDA v : v # upper(symbol))

\* the number of variant lookups sent so far
VariantLookups == Cardinality({k \in 1..Len(requests) : StrategyOf(requests, k) = 2})

\* C9: the variants are looked up in their generation order; after the first variant
\* whose lookup returns entries no further variant is looked up; a variant whose
\* lookup fails or returns nothing does not stop the loop; all symbol_variation
\* candidates of one search have the same matched variant.
C9_VariantsUntilFirstHit ==
    (Truthy(symbol) /\ pc \notin {"idle", "raised"}) =>
        \A n \in {VariantLookups}, variants \in {VariantsToTry} :
            /\ n <= Len(variants)
            /\ \A k \in 1..n :
                  /\ StrategyOf(requests, k + 1) = 2
                  /\ requests[k + 1].request =
                        get_cryptocurrency_map(variants[k], DefaultLimit)
            /\ \A k \in 1..(n - 1) : Void(requests[k + 1])
            /\ (pc \in {"slug", "fuzzy_name", "homepage", "returned"}
                /\ requests # <<>> /\ Void(requests[1])) =>
                    \/ n = Len(variants) /\ (n > 0 => Void(requests[n + 1]))
                    \/ n > 0 /\ ~Void(requests[n + 1])
            /\ \A i \in 1..Len(candidates) :
                  candidates[i]._match_method = "symbol_variation" =>
                      /\ n > 0
                      /\ ~Void(requests[n + 1])
                      /\ candidates[i]._matched_query = variants[n]

C9_Witness ==
    /\ pc = "returned"
    /\ Truthy(symbol)
    /\ VariantLookups >= 3
    /\ VariantLookups < Len(VariantsToTry)
    /\ requests[2].raised
    /\ ~requests[3].raised /\ requests[3].data = <<>>
    /\ ~Void(requests[VariantLookups + 1])
    /\ candidates # <<>>
    /\ candidates[1]._match_method = "symbol_variation"

\* a metadata-by-id request is among the requests sent
VerificationSent ==
    \E k \in 1..Len(requests) :
        requests[k].request.op = "info" /\ requests[k].request.id # None

\* the homepage_verification line is in the log
VerificationLogged ==
    \E k \in 1..Len(search_log) : search_log[k].strategy = "homepage_verification"

\* C10: the metadata-by-id request and the homepage_verification log line happen only
\* when a homepage is supplied and at least one candidate exists; with a homepage
\* but no candidate no metadata request is sent.
C10_VerificationGated ==
    /\ (VerificationSent \/ VerificationLogged) =>
          (Truthy(homepage) /\ candidates # <<>>)
    /\ (result # <<>> /\ result[1].match_count = 0) =>
          (~VerificationSent /\ ~VerificationLogged)

C10_Witness ==
    /\ pc = "returned"
    /\ VerificationSent
    /\ VerificationLogged
    /\ Truthy(homepage)
    /\ result[1].match_count > 0


\* the step that sent the metadata request of homepage verification
VerificationStep ==
    /\ pc = "homepage" /\ pc' = "returned"
    /\ Len(requests') = Len(requests) + 1

\* the answer holds an object for candidate c; or a value that is no object
Described(info_data, c) ==
    HasKey(info_data, str(c.id)) /\ Lookup(info_data, str(c.id)).shape = "dict"
Malformed(info_data, c) ==
    HasKey(info_data, str(c.id)) /\ Lookup(info_data, str(c.id)).shape # "dict"

\* candidate k is checked: the answer describes it, and processing the answer
\* has not failed on the way to it
Checked(info_data, cands, k) ==
    /\ Described(info_data, cands[k])
    /\ \A j \in 1..k : ~Malformed(info_data, cands[j])

\* the website URLs the answer declares for candidate c
DeclaredUrls(info_data, c) == Lookup(info_data, str(c.id)).values[1].website

SameUrlDeclared(urls, h) ==
    \E k \in 1..Len(urls) : _normalize_url(urls[k]) = _normalize_url(h)
SameDomainDeclared(urls, h) ==
    \E k \in 1..Len(urls) : _extract_domain(urls[k]) = _extract_domain(h)

\* C11: in homepage verification a checked candidate one of whose declared website
\* URLs normalizes to the same URL as the homepage ends with confidence verified and
\* homepage-match exact and without a warning, whatever its confidence and warning
\* were before.
C11_ExactMatchVerifies ==
    [][(VerificationStep /\ ~requests'[Len(requests')].raised) =>
        \A info_data \in {requests'[Len(requests')].data} :
          \A k \in 1..Len(candidates) :
            (/\ Checked(info_data, candidates, k)
             /\ SameUrlDeclared(DeclaredUrls(info_data, candidates[k]), homepage)) =>
                /\ discovered'[k]._confidence = "verified"
                /\ discovered'[k]._homepage_match = "exact"
                /\ discovered'[k]._warning = "absent"]_vars

C11_Witness ==
    /\ pc = "returned"
    /\ \E k \in 1..Len(discovered) :
          /\ discovered[k]._match_method = "fuzzy_name"
          /\ discovered[k]._confidence = "verified"
          /\ discovered[k]._homepage_match = "exact"
          /\ discovered[k]._warning = "absent"

\* C12: a checked candidate with no exact URL match but a declared website of the
\* homepage's bare domain gets homepage-match domain, and its confidence becomes
\* medium if it was low and is otherwise unchanged; a checked candidate matching
\* neither way gets homepage-match false and keeps its confidence.
C12_DomainMatchPromotesLow ==
    [][(VerificationStep /\ ~requests'[Len(requests')].raised) =>
        \A info_data \in {requests'[Len(requests')].data} :
          \A k \in 1..Len(candidates) :
            (/\ Checked(info_data, candidates, k)
             /\ ~SameUrlDeclared(DeclaredUrls(info_data, candidates[k]), homepage)) =>
                IF SameDomainDeclared(DeclaredUrls(info_data, candidates[k]), homepage)
                THEN /\ discovered'[k]._homepage_match = "domain"
                     /\ discovered'[k]._confidence =
                            IF candidates[k]._confidence = "low" THEN "medium"
                            ELSE candidates[k]._confidence
                ELSE /\ discovered'[k]._homepage_match = "False"
                     /\ discovered'[k]._confidence = candidates[k]._confidence]_vars

C12_Witness ==
    /\ pc = "returned"
    /\ \E j, k \in 1..Len(discovered) :
          /\ discovered[j]._match_method = "fuzzy_name"
          /\ discovered[j]._confidence = "medium"
          /\ discovered[j]._homepage_match = "domain"
          /\ discovered[k]._confidence = "low"
          /\ discovered[k]._homepage_match = "False"

\* C13: if homepage verification fails (the metadata lookup raises, or processing
\* its answer raises), every candidate is left exactly as it was before
\* verification started, and the search still returns its result.
C13_FailureLeavesCandidates ==
    [][(/\ VerificationStep
        /\ \/ requests'[Len(requests')].raised
           \/ \E k \in 1..Len(candidates) :
                 Malformed(requests'[Len(requests')].data, candidates[k])) =>
            /\ discovered' = candidates
            /\ result' # <<>>]_vars

\* x is one of the items of seq
Listed(seq, x) == \E i \in 1..Len(seq) : seq[i] = x

\* rule (a): all targets of the rebrand table entry of s
TargetsOf(s) ==
    IF \E i \in 1..Len(expansions) : expansions[i][1] = s
    THEN expansions[CHOOSE i \in 1..Len(expansions) : expansions[i][1] = s][2]
    ELSE <<>>

\* rule (b): s without each listed suffix it ends with, the remainder non-empty
WithoutSuffix(s) ==
    LET hits == SelectSeq(suffixes,
                    LAMBDA x : /\ Len(s) > Len(x)
                               /\ SubSeq(s, Len(s) - Len(x) + 1, Len(s)) = x)
    IN  [i \in 1..Len(hits) |-> SubSeq(s, 1, Len(s) - Len(hits[i]))]

\* rule (c): s + TOKEN and s + COIN when s has 4 characters or fewer
WithSuffix(s) == IF Len(s) <= 4 THEN << s \o <<"T","O","K","E","N">>, s \o <<"C","O","I","N">> >> ELSE <<>>

\* rule (d): s without its trailing digits when it ends in a digit
WithoutDigits(s) ==
    IF Len(s) > 0 /\ s[Len(s)] \in Digits
    THEN LET kept == {i \in 1..Len(s) : s[i] \notin Digits}
         IN  << SubSeq(s, 1, IF kept = {} THEN 0
                             ELSE CHOOSE i \in kept : \A j \in kept : j <= i) >>
    ELSE <<>>

\* rule (e): the final R replaced by ER; rule (f): ET appended after a final N
FinalRtoER(s) ==
    IF Len(s) >= 3 /\ s[Len(s)] = "R" THEN << SubSeq(s, 1, Len(s) - 1) \o <<"E","R">> >> ELSE <<>>
FinalNplusET(s) ==
    IF Len(s) >= 3 /\ s[Len(s)] = "N" THEN << s \o <<"E","T">> >> ELSE <<>>

\* C14: _generate_symbol_variations returns, for the uppercased and trimmed symbol,
\* exactly the concatenation in the order (a)-(f) of what each rule yields, each
\* rule evaluated independently; RNDR includes RENDER, MATIC includes POL, FET
\* includes ASI, LUNA includes LUNC and LUNA2, SOL includes SOLTOKEN and SOLCOIN,
\* BTCTOKEN includes BTC.
C14_VariationsInRuleOrder ==
    fn = "_generate_symbol_variations" =>
        /\ \A s \in {strip(upper(arg))} :
              ret = TargetsOf(s) \o WithoutSuffix(s) \o WithSuffix(s)
                      \o WithoutDigits(s) \o FinalRtoER(s) \o FinalNplusET(s)
        /\ arg = <<"R","N","D","R">> => Listed(ret, <<"R","E","N","D","E","R">>)
        /\ arg = <<"M","A","T","I","C">> => Listed(ret, <<"P","O","L">>)
        /\ arg = <<"F","E","T">> => Listed(ret, <<"A","S","I">>)
        /\ arg = <<"L","U","N","A">> => Listed(ret, <<"L","U","N","C">>) /\ Listed(ret, <<"L","U","N","A","2">>)
        /\ arg = <<"S","O","L">> => Listed(ret, <<"S","O","L","T","O","K","E","N">>) /\ Listed(ret, <<"S","O","L","C","O","I","N">>)
        /\ arg = <<"B","T","C","T","O","K","E","N">> => Listed(ret, <<"B","T","C">>)

C14_Witness ==
    /\ fn = "_generate_symbol_variations"
    /\ arg = <<"R","N","D","R">>
    /\ ret = << <<"R","E","N","D","E","R">>, <<"R","N","D","R","T","O","K","E","N">>, <<"R","N","D","R","C","O","I","N">>, <<"R","N","D","E","R">> >>

\* C15: slug derivation is idempotent, and a derived slug contains only lowercase
\* letters, digits and single interior hyphens ("Render Token" gives
\* "render-token", "USD Coin (USDC)" gives "usd-coin-usdc").
C15_SlugIdempotent ==
    fn = "_name_to_slug" =>
        /\ _name_to_slug(ret) = ret
        /\ \A i \in 1..Len(ret) : ret[i] \in LowerSet \cup Digits \cup {"-"}
        /\ \A i \in 1..Len(ret) :
              ret[i] = "-" => /\ i > 1 /\ i < Len(ret)
                              /\ ret[i + 1] # "-"
        /\ arg = <<"R","e","n","d","e","r"," ","T","o","k","e","n">> => ret = <<"r","e","n","d","e","r","-","t","o","k","e","n">>
        /\ arg = <<"U","S","D"," ","C","o","i","n"," ","(","U","S","D","C",")">> => ret = <<"u","s","d","-","c","o","i","n","-","u","s","d","c">>

C15_Witness ==
    /\ fn = "_name_to_slug"
    /\ arg = <<"U","S","D"," ","C","o","i","n"," ","(","U","S","D","C",")">>
    /\ ret = <<"u","s","d","-","c","o","i","n","-","u","s","d","c">>

\* C16: for a bare host h (and for h followed by a port and a path), every
\* combination of scheme, www. prefix, trailing slash and upper/lower case
\* normalizes to lowercase h.
C16_NormalizeUrlVariants ==
    fn = "_normalize_url" =>
        /\ \E host \in Hosts, port \in Ports, path \in Paths : ret = host \o port \o path
        /\ \E scheme \in Schemes, www \in WwwPrefixes, slash \in Slashes, case \in Cases :
              arg = InCase(scheme \o www \o ret \o slash, case)

C16_Witness ==
    /\ fn = "_normalize_url"
    /\ arg = <<"H","T","T","P","S",":","/","/","W","W","W",".","E","T","H","E","R","E","U","M",".","O","R","G","/">>
    /\ ret = <<"e","t","h","e","r","e","u","m",".","o","r","g">>

\* C17: _extract_domain returns only the host of the normalized URL: no scheme, no
\* leading www., no path and no port, subdomains other than www kept; URLs of the
\* same host that differ only in path or port have equal domains.
C17_DomainIsHost ==
    fn = "_extract_domain" =>
        /\ ret \in Hosts
        /\ \E scheme \in Schemes, www \in WwwPrefixes, port \in Ports, path \in Paths,
              slash \in Slashes, case \in Cases :
              arg = Url(scheme, www, ret, port, path, slash, case)

C17_Witness ==
    /\ fn = "_extract_domain"
    /\ arg = <<"h","t","t","p","s",":","/","/","w","w","w",".","d","o","c","s",".","e","t","h","e","r","e","u","m",".","o","r","g",":","4","4","3","/","e","n","/","g","u","i","d","e">>
    /\ ret = <<"d","o","c","s",".","e","t","h","e","r","e","u","m",".","o","r","g">>

\* the operations of the catalog client, and those that need an identifier
ClientOperations ==
    {"get_cryptocurrency_map", "get_cryptocurrency_info",
     "get_cryptocurrency_quotes_latest", "get_exchange_map", "get_exchange_info",
     "get_global_metrics_quotes_latest", "get_key_info"}
IdentifiedOperations ==
    {"get_cryptocurrency_info", "get_cryptocurrency_quotes_latest", "get_exchange_info"}

\* a response envelope arrived for the operation called
Answered ==
    /\ fn \in ClientOperations
    /\ ret.response # <<>>
    /\ ret.response[1].kind = "response"

\* C18: every client operation fails with the upstream error, carrying the
\* transport status code, the envelope's message and its error code, when the
\* envelope reports a non-zero error code or the status is not a success status,
\* either alone; the data is returned only when the code is zero and the status a
\* success.
C18_UpstreamErrorOnEither ==
    Answered =>
        \A response \in {ret.response[1]} :
            IF response.error_code # 0
                  \/ response.status_code < 200 \/ response.status_code > 299
            THEN /\ ret.outcome.raised
                 /\ ret.outcome.exc = [type |-> "CoinMarketCapAPIError",
                                       status_code |-> response.status_code,
                                       message |-> response.error_message,
                                       error_code |-> response.error_code]
            ELSE /\ ~ret.outcome.raised
                 /\ ret.outcome.data = response.data

C18_Witness ==
    /\ Answered
    /\ fn = "get_key_info"
    /\ ret.response[1].status_code = 200
    /\ ret.response[1].error_code = 1001
    /\ ret.outcome.raised
    /\ ret.outcome.exc.error_code = 1001

\* none of the identifying parameters of the operation called is supplied
NoIdentifier ==
    /\ fn \in IdentifiedOperations
    /\ \A k \in DOMAIN arg \ {"convert"} : arg[k] \in {None, <<>>}

\* C19: the client operations that need an identifier (cryptocurrency info, latest
\* quotes, exchange info) fail with an invalid-argument error when none of their
\* identifying parameters is supplied, and then no request is issued.
C19_NoIdentifierNoRequest ==
    NoIdentifier =>
        /\ ret.outcome.raised
        /\ ret.outcome.exc.type = "ValueError"
        /\ ret.sent = <<>>
        /\ ret.response = <<>>

C19_Witness ==
    /\ NoIdentifier
    /\ fn = "get_cryptocurrency_quotes_latest"
    /\ arg.convert = <<"U","S","D">>
    /\ ret.sent = <<>>
    /\ ret.outcome.raised

\* C20: across any sequence or interleaving of tool invocations the transport
\* client is created at most once: the first successful _get_client creates it and
\* every later call returns that same instance, so no two invocations hold
\* different clients.
C20_ClientCreatedOnce ==
    /\ created <= 1
    /\ (created = 0) <=> (_client = "None")
    /\ \A t \in Tasks : tasks[t].pc \in {"awaiting", "done"} => tasks[t].client = 1

C20_Witness ==
    /\ created = 1
    /\ \E t, u, v \in Tasks :
          /\ tasks[t].pc = "awaiting" /\ tasks[t].tool = "search_cryptocurrency"
          /\ tasks[u].pc = "awaiting" /\ tasks[u].tool = "key_info"
          /\ tasks[v].pc = "done"
          /\ tasks[t].client = tasks[u].client /\ tasks[u].client = tasks[v].client

\* the alphanumeric lowercase form of a text
AlnumForm(t) == Keep(lower(t), AlnumLower)

\* entry a is not after entry b by catalog rank, the entries with no rank last
RankedBefore(a, b) ==
    \/ a.rank # NoRank /\ (b.rank = NoRank \/ a.rank <= b.rank)
    \/ a.rank = NoRank /\ b.rank = NoRank

\* match a is not after match b: by similarity descending, then by rank
MatchBefore(a, b) ==
    \/ a._similarity > b._similarity
    \/ a._similarity = b._similarity /\ RankedBefore(a.item, b.item)

\* C21: fuzzy name match returns at most 5 entries, every one with similarity >=
\* 0.6, ordered by similarity descending, ties broken by ascending catalog rank with
\* the entries that have no rank after the ranked ones; they are the first 5 of the
\* matches in that order, so an entry whose name equals the query (1.0) is before
\* one that only contains it (0.9).
C21_FuzzyTopFiveOrdered ==
    fn = "_fuzzy_search_by_name" =>
        /\ Len(ret) <= 5
        /\ \A i \in 1..Len(ret) : ret[i]._similarity >= 60
        /\ \A i, j \in 1..Len(ret) : i < j => MatchBefore(ret[i], ret[j])
        /\ \A i, j \in 1..Len(ret) :
              (ret[i]._match_type = "exact" /\ ret[j]._match_type = "contains") => i < j
        /\ ~arg.outcome.raised =>
              \A matches \in {FuzzyMatches(arg.name, arg.outcome.data)} :
                  /\ Len(ret) = IF Len(matches) < 5 THEN Len(matches) ELSE 5
                  /\ \A i \in 1..Len(ret) : Listed(matches, ret[i])
                  /\ \A k \in 1..Len(matches) :
                        Listed(ret, matches[k]) \/ MatchBefore(ret[Len(ret)], matches[k])

C21_Witness ==
    /\ fn = "_fuzzy_search_by_name"
    /\ Len(arg.outcome.data) = 6
    /\ Len(ret) = 5
    /\ AlnumForm(arg.name) # <<>>
    /\ \E i \in 1..4 :
          /\ ret[i]._similarity = ret[i + 1]._similarity
          /\ ret[i].item.rank # NoRank /\ ret[i + 1].item.rank = NoRank

\* rules (i)-(iii) of the similarity of entry e for the query name
RuleExact(query, e) ==
    AlnumForm(query) = AlnumForm(e.name) \/ AlnumForm(query) = AlnumForm(e.slug)
RuleContains(query, e) ==
    \/ Contains(AlnumForm(e.name), AlnumForm(query))
    \/ Contains(AlnumForm(e.slug), AlnumForm(query))
RuleReverseContains(query, e) ==
    \/ Len(AlnumForm(e.name)) >= 5 /\ Contains(AlnumForm(query), AlnumForm(e.name))
    \/ Len(AlnumForm(e.slug)) >= 5 /\ Contains(AlnumForm(query), AlnumForm(e.slug))

\* C22: the similarity of an entry is given by the first of the rules exact,
\* contains, reverse_contains, word_overlap that applies: an entry to which none of
\* the first three applies, also when reverse_contains is excluded only by its
\* length condition, scores 0.6 + 0.3 * (overlap / larger token set) when the word
\* sets of the query and of its name overlap, and 0 otherwise.
C22_WordOverlapIsTheFallback ==
    (fn = "_fuzzy_search_by_name" /\ ~arg.outcome.raised /\ Len(arg.outcome.data) <= 5) =>
        \A k \in 1..Len(arg.outcome.data) :
          \A e \in {arg.outcome.data[k]} :
            (~RuleExact(arg.name, e) /\ ~RuleContains(arg.name, e)
                /\ ~RuleReverseContains(arg.name, e)) =>
                \A qw \in {Words(strip(lower(arg.name)))}, nw \in {Words(lower(e.name))} :
                    IF qw \cap nw # {}
                    THEN \E i \in 1..Len(ret) :
                            /\ ret[i].item = e
                            /\ ret[i]._match_type = "word_overlap"
                            /\ \A m \in {Max(Cardinality(qw), Cardinality(nw))} :
                                  \A d \in {ret[i]._similarity * m
                                              - (60 * m + 30 * Cardinality(qw \cap nw))} :
                                      2 * d <= m /\ 2 * d >= 0 - m
                    ELSE \A i \in 1..Len(ret) : ret[i].item # e

\* C23: reverse_contains is given to an entry only when its alphanumeric name or
\* slug that is a substring of the query's alphanumeric form has at least 5
\* characters, never through a form shorter than that, an empty one included.
C23_ReverseContainsNeedsFiveChars ==
    fn = "_fuzzy_search_by_name" =>
        \A i \in 1..Len(ret) :
            ret[i]._match_type = "reverse_contains" =>
                RuleReverseContains(arg.name, ret[i].item)

\* C24: homepage verification fetches metadata for, compares and annotates at most
\* the first 10 candidates in their current order: the request names their ids in
\* that order and no other, and every candidate beyond the tenth keeps its
\* confidence and warning and gets no homepage-match outcome.
C24_VerificationTopTen ==
    [][VerificationStep =>
        /\ requests'[Len(requests')].request.id =
              Join([k \in 1..(IF Len(candidates) < 10 THEN Len(candidates) ELSE 10) |->
                        str(candidates[k].id)])
        /\ Len(discovered') = Len(candidates)
        /\ \A k \in 1..Len(candidates) :
              k > 10 =>
                  /\ discovered'[k]._confidence = candidates[k]._confidence
                  /\ discovered'[k]._warning = candidates[k]._warning
                  /\ discovered'[k]._homepage_match = "absent"
                  /\ discovered'[k]._website_urls = candidates[k]._website_urls
        /\ \A k \in 1..Len(candidates) :
              discovered'[k] # candidates[k] => k <= 10]_vars

C24_Witness ==
    /\ pc = "returned"
    /\ VerificationSent
    /\ Len(discovered) = 11
    /\ discovered[10]._homepage_match # "absent"
    /\ discovered[11]._homepage_match = "absent"

\* the result carries warning w
Warned(w) ==
    result[1].warnings # None /\ Listed(result[1].warnings, w)

\* C25: the warnings of a SearchResult contain the low-confidence warning exactly
\* when the first sorted candidate still has confidence low after verification, and
\* the multiple-matches warning exactly when there is more than one candidate and
\* no homepage was supplied; warnings is null exactly when neither holds.
C25_WarningsExactlyWhen ==
    result # <<>> =>
        /\ Warned(LowConfidenceWarning) <=>
              (candidates # <<>> /\ candidates[1]._confidence = "low")
        /\ Warned(MultipleMatchesWarning) <=>
              (Len(candidates) > 1 /\ ~Truthy(homepage))
        /\ result[1].warnings = None <=>
              (/\ ~(candidates # <<>> /\ candidates[1]._confidence = "low")
               /\ ~(Len(candidates) > 1 /\ ~Truthy(homepage)))
        /\ result[1].warnings # None =>
              \A k \in 1..Len(result[1].warnings) :
                  result[1].warnings[k] \in {LowConfidenceWarning, MultipleMatchesWarning}

\* several fuzzy candidates with a homepage given, the first of them still low
\* after verification: the low-confidence warning alone
C25_Witness ==
    /\ pc = "returned"
    /\ VerificationSent
    /\ Len(candidates) > 1
    /\ candidates[1]._confidence = "low"
    /\ result[1].warnings = <<LowConfidenceWarning>>

\* the symbol filter the lookup of variant v carries
VariantFilter(v) == get_cryptocurrency_map(v, DefaultLimit).symbol

\* no lookup is issued twice; the lookups are in the order of the strategies, at
\* most one each for strategies 1, 3, 4 and 5; those of strategy 2 are lookups of
\* different positions of the variant list, in the order of the list
C26_NoRepeat ==
    /\ \A i, j \in 1..Len(requests) : i < j => requests[i].request # requests[j].request
    /\ C8_InOrder
    /\ VariantLookups <= Len(variations)
    /\ \A i \in 1..Len(requests) :
          StrategyOf(requests, i) = 2 =>
              \E a \in 1..Len(variations) :
                  VariantFilter(variations[a]) = requests[i].request.symbol
    /\ \A i, j \in 1..Len(requests) :
          (i < j /\ StrategyOf(requests, i) = 2 /\ StrategyOf(requests, j) = 2) =>
              \E a, b \in 1..Len(variations) :
                  /\ a < b
                  /\ VariantFilter(variations[a]) = requests[i].request.symbol
                  /\ VariantFilter(variations[b]) = requests[j].request.symbol

\* a step issues at most one lookup, after the ones already issued
C26_OneAtATime ==
    \/ requests' = requests
    \/ requests' = <<>>
    \/ /\ Len(requests') = Len(requests) + 1
       /\ SubSeq(requests', 1, Len(requests)) = requests

\* a failed lookup of strategies 1-3 adds one log line of its strategy, nothing is
\* raised to the caller and the invocation moves on
C26_FailureLogged ==
    (/\ Len(requests') = Len(requests) + 1
     /\ requests'[Len(requests')].raised
     /\ StrategyOf(requests', Len(requests')) \in {1, 2, 3}) =>
        /\ Len(search_log') = Len(search_log) + 1
        /\ SubSeq(search_log', 1, Len(search_log)) = search_log
        /\ search_log'[Len(search_log')].strategy =
              <<"exact_symbol", "symbol_variation", "slug">>[StrategyOf(requests', Len(requests'))]
        /\ search_log'[Len(search_log')].what # "found"
        /\ candidates' = candidates
        /\ raised' = <<>>
        /\ \/ StageIndex(pc') > StageIndex(pc)
           \/ pc' = pc /\ vi' = vi + 1

\* C26: the resolver never retries: within one invocation the exact-symbol lookup,
\* the lookup of each variant, the slug lookup, the catalog page fetch of the fuzzy
\* strategy and the metadata-by-id fetch are each issued at most once, one at a time
\* in that order, and a failed lookup is not issued again; each failure in
\* strategies 1-3 adds a log entry and the pipeline goes on.
C26_NeverRetries ==
    /\ []C26_NoRepeat
    /\ [][C26_OneAtATime /\ C26_FailureLogged]_vars

C26_Witness ==
    /\ pc = "returned"
    /\ Len(requests) >= 5
    /\ requests[1].raised
    /\ \E k \in 1..Len(requests) : StrategyOf(requests, k) = 2 /\ requests[k].raised
    /\ \E k \in 1..Len(requests) : StrategyOf(requests, k) = 3 /\ requests[k].raised
    /\ \E k \in 1..Len(requests) : StrategyOf(requests, k) = 4
    /\ VerificationSent
    /\ Len(search_log) >= 4

\* C27: every catalog lookup of the exact-symbol strategy carries a non-empty symbol
\* filter, the normalized query symbol: a symbol that is empty after trimming never
\* causes an unfiltered listing to be fetched and its entries returned as
\* exact_symbol / high candidates.
C27_ExactLookupFiltered ==
    /\ \A k \in 1..Len(requests) :
          StrategyOf(requests, k) = 1 =>
              /\ requests[k].request.symbol # None
              /\ requests[k].request.symbol # <<>>
              /\ requests[k].request.symbol = strip(upper(symbol))
    /\ \A k \in 1..Len(candidates) :
          candidates[k]._match_method = "exact_symbol" =>
              /\ strip(upper(symbol)) # <<>>
              /\ requests[1].request.symbol = strip(upper(symbol))

\* C28: every variant _generate_symbol_variations produces is a non-empty string,
\* also for a symbol made only of digits, so the symbol-variation strategy never
\* issues a lookup with an empty symbol, which the client would send as an
\* unfiltered listing whose entries would be tagged symbol_variation / medium.
C28_VariantsNonEmpty ==
    /\ \A i \in 1..Len(variations) : variations[i] # <<>>
    /\ \A k \in 1..Len(requests) :
          StrategyOf(requests, k) = 2 => requests[k].request.symbol # None
    /\ \A k \in 1..Len(candidates) :
          candidates[k]._match_method = "symbol_variation" =>
              candidates[k]._matched_query # <<>>

\* C29: a query name whose alphanumeric lowercase form is empty (only punctuation,
\* symbols or whitespace) yields no fuzzy-name candidates.
C29_EmptyFormNoFuzzyCandidates ==
    (Truthy(name) /\ AlnumForm(name) = <<>>) =>
        \A k \in 1..Len(candidates) : candidates[k]._match_method # "fuzzy_name"

\* the catalog entry and the discovery of candidate c: all of it but the fields
\* verification writes
Discovery(c) ==
    [id |-> c.id, name |-> c.name, symbol |-> c.symbol, slug |-> c.slug, rank |-> c.rank,
     _match_method |-> c._match_method, _matched_query |-> c._matched_query,
     _original_query |-> c._original_query, _similarity |-> c._similarity,
     _match_type |-> c._match_type]

\* C30: homepage verification never lowers a candidate's confidence tier and never
\* adds, removes or reorders candidates: after it each candidate's tier is the same
\* as before or higher (verified > high > medium > low), and the list has the same
\* length and the same entries in the same positions.
C30_VerificationNeverDemotes ==
    [][VerificationStep =>
        /\ Len(discovered') = Len(candidates)
        /\ \A k \in 1..Len(candidates) :
              /\ Discovery(discovered'[k]) = Discovery(candidates[k])
              /\ TierIndex(discovered'[k]._confidence)
                    <= TierIndex(candidates[k]._confidence)]_vars

C30_Witness ==
    /\ pc = "returned"
    /\ VerificationSent
    /\ Len(discovered) > 1
    /\ \E j, k \in 1..Len(discovered) :
          /\ discovered[j]._match_method = "exact_symbol"
          /\ discovered[j]._confidence = "high"
          /\ discovered[j]._homepage_match = "domain"
          /\ discovered[k]._confidence = "verified"


=============================================================================
